---- MODULE Spec2Model ----
(***************************************************************************)
(* Model of the Prakriti backend: the Temporal Cache kept in Neo4j by      *)
(* LiveDataService (LiveWeatherData / LiveMarketPrice nodes) and the       *)
(* weather provider chain that feeds it.                                   *)
(*                                                                         *)
(* The store is driven one Cypher statement at a time: every session.run   *)
(* is an auto-commit transaction of its own, so a statement is atomic and  *)
(* two upserts (two server processes sharing the database, or two          *)
(* sessions) interleave between statements.                                *)
(*                                                                         *)
(* On top of the cache: the market feed (upsert_market_prices) and the     *)
(* stages of RAGPipeline that use the store and the feeds: interpret,      *)
(* query_kg, enrich and gen, each with a specification of its own, and     *)
(* the coordinator that runs them for a request of the /query endpoint.    *)
(*                                                                         *)
(* Last come the updater (start_live_data_updates, which refreshes the     *)
(* weather of the configured cities and the market prices in cycles, with  *)
(* a fair specification for its progress) and the agricultural-impact      *)
(* assessment of the two weather providers.                                *)
(***************************************************************************)
EXTENDS Integers, Sequences, FiniteSets, TLC

VARIABLES
    weatherStore,   \* the LiveWeatherData nodes
    marketStore,    \* the LiveMarketPrice nodes
    nextId,         \* identity of the next node the store creates
    now,            \* wall clock, in days
    ticks,          \* number of clock advances so far
    written,        \* number of observations handed to the store so far
    pc,             \* per worker: the statement it is about to run
    job,            \* per worker: the data its upsert was called with
    outcome,        \* per worker: how its upsert ended
    before,         \* per worker: the key's current values when it started
    cpc,            \* weather request: where the provider chain stands
    creq,           \* weather request: its input and what the providers did
    result,         \* weather request: the observation it holds or returns
    primaryCalls,   \* weather request: HTTP requests sent to the primary
    secondaryCalls, \* weather request: fetches started on the secondary
    mpc,            \* market request: where upsert_market_prices stands
    mreq,           \* market request: its input
    mresult,        \* market request: the rows it returns, and their source
    mrows,          \* market request: the rows still to be upserted
    mrow,           \* market request: the row being upserted
    ipc,            \* interpret: where the call stands
    ireq,           \* interpret: the query, and whether the client is set
    ifirst,         \* interpret: what the first completion call came to
    iretry,         \* interpret: what the second completion call came to
    completionCalls, \* interpret: completion calls made for this query
    extracted,      \* interpret: the value returned
    kpc,            \* query_kg: where the call stands
    kreq,           \* query_kg: the extracted query it was called with
    kpos,           \* query_kg: the store query of its plan that comes next
    kresults,       \* query_kg: the answers appended so far (results)
    kgCalls,        \* query_kg: the store queries issued, with their outcomes
    kgResult,       \* query_kg: the list returned
    kstatus,        \* query_kg: whether it ran through or caught an exception
    epc,            \* enrich: where the call stands
    ereq,           \* enrich: the extracted query it was called with
    fragments,      \* enrich: the text fragments collected (context_parts)
    estatus,        \* enrich: whether it ran through or caught an exception
    gpc,            \* gen: the tier it stands at
    greq,           \* gen: the arguments it was called with
    gcalls,         \* gen: the model calls made so far, with what came of each
    gout,           \* gen: the value it returns
    ppc,            \* request: the stage the coordinator stands at
    preq,           \* request: the query request and whether the client is set
    pdata,          \* request: the values the stages have handed on
    ptrace,         \* request: the stages that have completed, in order
    penv,           \* request: the envelope process_multilingual_query returns
    http,           \* request: what the entry answers its caller with
    spc,            \* updater: where start_live_data_updates stands
    scity,          \* updater: the place in WEATHER_CITIES the cycle has reached
    svisited,       \* updater: the cities the cycle has called the upsert for
    smarket,        \* updater: whether the cycle has called the market upsert
    slog,           \* updater: the errors the last cycle logged
    ssleep,         \* updater: the length of the sleep in progress, in seconds
    smanual,        \* updater: the POST /live-data/update request in progress
    areq,           \* impact assessment: the variant called and its arguments
    aout            \* impact assessment: the advisory returned

workerVars == <<pc, job, outcome, before>>

chainVars == <<cpc, creq, result, primaryCalls, secondaryCalls>>

marketVars == <<mpc, mreq, mresult, mrows, mrow>>

interpretVars == <<ipc, ireq, ifirst, iretry, completionCalls, extracted>>

lookupVars == <<kpc, kreq, kpos, kresults, kgCalls, kgResult, kstatus>>

enrichVars == <<epc, ereq, fragments, estatus>>

genVars == <<gpc, greq, gcalls, gout>>

coordVars == <<ppc, preq, pdata, ptrace, penv, http>>

schedVars == <<spc, scity, svisited, smarket, slog, ssleep, smanual>>

impactVars == <<areq, aout>>

\* The variables of the request pipeline, which the cache and the weather
\* chain leave alone.
pipeVars ==
    <<marketVars, interpretVars, lookupVars, enrichVars,
      genVars, coordVars, schedVars, impactVars>>

vars == <<weatherStore, marketStore, nextId, now, ticks, written,
          pc, job, outcome, before,
          cpc, creq, result, primaryCalls, secondaryCalls,
          pipeVars>>

-----------------------------------------------------------------------------
(* Bounds of the model *)

MaxWrites == 2
MaxTicks == 1

(* Program constants *)

WeatherRetentionDays == 7
MarketRetentionDays == 30

Workers == {"w1", "w2"}

Regions == {"Chennai", "Madurai"}

Commodities == {"Rice"}
Markets == {"Salem", "Erode"}
Dates == {"2024-01-01", "2024-01-02"}

\* A date that is None in Python and null in Cypher: Agmarknet sent
\* "arrival_date": null. Dates are strings in the model, so the missing one
\* is a string of its own; a node created with it has no date property.
NullDate == "None"

\* datetime.now().strftime("%Y-%m-%d"): the date of day t of the model. Day 0
\* is the later of the two arrival dates; time moves in steps of
\* MarketRetentionDays + 1 = 31 days.
Today(t) ==
    IF t < 31 THEN "2024-01-02"
    ELSE IF t < 62 THEN "2024-02-02"
    ELSE IF t < 93 THEN "2024-03-04"
    ELSE "2024-04-04"

\* The value carried by the n-th observation handed to the store: every
\* observation is different from the ones before it, so that snapshots can
\* be told apart by their values.
Observed(n) == 20 + n

-----------------------------------------------------------------------------
(* Values as the store sees them *)

\* A Python None / a Cypher null is the empty set, a present value a singleton.
None == {}
Some(v) == {v}

\* datetime.now().isoformat(): a Python str, stored as a Cypher String.
IsoString(t) == [type |-> "String", at |-> t]

\* datetime() - duration({days: d}): a Cypher DateTime.
DateTimeMinusDays(t, d) == [type |-> "DateTime", at |-> t - d]

\* Cypher's a < b: values of different types (here a String and a DateTime)
\* are incomparable and the comparison is null, not true or false; a WHERE
\* clause keeps a row only when its predicate is true.
CypherLess(a, b) ==
    IF a.type # b.type THEN "null"
    ELSE IF a.at < b.at THEN "true" ELSE "false"

-----------------------------------------------------------------------------
(* The Cypher statements of _update_weather_in_kg, as functions of the store *)

\* Faulty variant: the invalidation statement is left out.
MarkOldWeatherSkipped(store, region) == store

\* MATCH (w:LiveWeatherData) WHERE w.region = $region SET w.is_current = false
MarkOldWeather(store, region) ==
    { IF w.region = region THEN [w EXCEPT !.is_current = FALSE] ELSE w
      : w \in store }

\* CREATE (w:LiveWeatherData {region: ..., temperature: ..., timestamp: ...,
\*                            is_current: true})
\* temperature stands for the observation properties, which are all copied
\* from weather_data the same way.
CreateWeather(store, id, data) ==
    store \cup { [id |-> id, region |-> data.region,
                  temperature |-> data.temperature,
                  timestamp |-> data.timestamp, is_current |-> TRUE] }

\* MATCH (w:LiveWeatherData)
\* WHERE w.timestamp < datetime() - duration({days: 7}) DELETE w
\* w.timestamp is the ISO string written by CreateWeather, the right-hand
\* side a DateTime.
CleanupWeather(store, t) ==
    { w \in store :
        CypherLess(w.timestamp, DateTimeMinusDays(t, WeatherRetentionDays)) # "true" }

-----------------------------------------------------------------------------
(* The Cypher statements of _update_market_prices_in_kg *)

\* m.commodity = $commodity AND m.market = $market AND m.date = $date: with
\* a null date the comparison is null, and the WHERE clause keeps no node.
SameTriple(m, r) ==
    /\ m.commodity = r.commodity /\ m.market = r.market
    /\ r.date # NullDate /\ m.date = r.date

SamePair(m, r) ==
    m.commodity = r.commodity /\ m.market = r.market

\* The node carries the subject key of the row: commodity, market and date,
\* a node created from a row of null date having no date either.
SameKey(m, r) ==
    m.commodity = r.commodity /\ m.market = r.market /\ m.date = r.date

\* check_query ... RETURN m.timestamp LIMIT 1; existing = result.single()
CheckMarket(store, r) == \E m \in store : SameTriple(m, r)

\* Faulty variant: the same-day update forgets to write the new price.
UpdateMarketKeepPrice(store, r) ==
    { IF SameTriple(m, r)
        THEN [m EXCEPT !.timestamp = r.timestamp, !.is_current = TRUE]
        ELSE m : m \in store }

\* update_query: SET m.price = $price, ..., m.timestamp = $timestamp,
\*               m.is_current = true   on every node of the triple.
\* price stands for variety, price, unit, district and state.
UpdateMarket(store, r) ==
    { IF SameTriple(m, r)
        THEN [m EXCEPT !.price = r.price, !.timestamp = r.timestamp,
                       !.is_current = TRUE]
        ELSE m : m \in store }

\* mark_old_query: WHERE m.commodity = $commodity AND m.market = $market
\*                 SET m.is_current = false
MarkOldMarket(store, r) ==
    { IF SamePair(m, r) THEN [m EXCEPT !.is_current = FALSE] ELSE m
      : m \in store }

\* create_query: CREATE (m:LiveMarketPrice {..., is_current: true})
CreateMarket(store, id, r) ==
    store \cup { [id |-> id, commodity |-> r.commodity, market |-> r.market,
                  date |-> r.date, price |-> r.price,
                  timestamp |-> r.timestamp, is_current |-> TRUE] }

\* cleanup_query: WHERE m.timestamp < datetime() - duration({days: 30}) DELETE m
CleanupMarket(store, t) ==
    { m \in store :
        CypherLess(m.timestamp, DateTimeMinusDays(t, MarketRetentionDays)) # "true" }

-----------------------------------------------------------------------------
(* The two upsert procedures, one Cypher statement per step *)

NoJob == [feed |-> "none"]
NoRequest == [path |-> "none"]
NoResult == [source |-> "none"]

WeatherData(region, temperature, t) ==
    [region |-> region, temperature |-> temperature, timestamp |-> IsoString(t)]

MarketRows(price, t) ==
    [commodity : Commodities, market : Markets, date : Dates \cup {NullDate},
     price : {price}, timestamp : {IsoString(t)}]

WeatherPcs == {"w_mark", "w_create", "w_cleanup"}
MarketPcs == {"m_loop", "m_update", "m_mark", "m_create"}

CurrentWeather(store, region) ==
    { w \in store : w.region = region /\ w.is_current }

CurrentMarket(store, r) ==
    { m \in store : SameKey(m, r) /\ m.is_current }

Exclusive(w) == \A u \in Workers \ {w} : pc[u] = "idle"

\* Idle workers are interchangeable: a call is given to the first idle one.
Earlier(w) == IF w = "w2" THEN {"w1"} ELSE {}
MayStart(w) == pc[w] = "idle" /\ \A u \in Earlier(w) : pc[u] # "idle"

\* _update_weather_in_kg is entered: the driver is there (session opened) or
\* it is None (the call logs a warning and returns).
StartWeather(w, region, temperature) ==
    /\ MayStart(w)
    /\ written < MaxWrites
    /\ written' = written + 1
    /\ job' = [job EXCEPT ![w] =
                 [feed |-> "weather", data |-> WeatherData(region, temperature, now)]]
    /\ before' = [before EXCEPT ![w] =
                    { n.temperature : n \in CurrentWeather(weatherStore, region) }]
    /\ \E driver \in BOOLEAN :
         /\ pc' = [pc EXCEPT ![w] = IF driver THEN "w_mark" ELSE "done"]
         /\ outcome' = [outcome EXCEPT ![w] = IF driver THEN "running" ELSE "skipped"]
    /\ UNCHANGED <<chainVars, pipeVars>>
    /\ UNCHANGED <<weatherStore, marketStore, nextId, now, ticks>>

WeatherMarkOld(w) ==
    /\ pc[w] = "w_mark"
    /\ weatherStore' = MarkOldWeather(weatherStore, job[w].data.region)
    /\ pc' = [pc EXCEPT ![w] = "w_create"]
    /\ UNCHANGED <<chainVars, pipeVars>>
    /\ UNCHANGED <<marketStore, nextId, now, ticks, written, job, outcome,
                   before>>

WeatherCreate(w) ==
    /\ pc[w] = "w_create"
    /\ weatherStore' = CreateWeather(weatherStore, nextId, job[w].data)
    /\ nextId' = nextId + 1
    /\ pc' = [pc EXCEPT ![w] = "w_cleanup"]
    /\ UNCHANGED <<chainVars, pipeVars>>
    /\ UNCHANGED <<marketStore, now, ticks, written, job, outcome, before>>

WeatherCleanup(w) ==
    /\ pc[w] = "w_cleanup"
    /\ weatherStore' = CleanupWeather(weatherStore, now)
    /\ pc' = [pc EXCEPT ![w] = "done"]
    /\ outcome' = [outcome EXCEPT ![w] = "ok"]
    /\ UNCHANGED <<chainVars, pipeVars>>
    /\ UNCHANGED <<marketStore, nextId, now, ticks, written, job, before>>

\* _update_market_prices_in_kg is entered with a list of rows; the rows are
\* drawn one by one as the loop reaches them.
StartMarket(w) ==
    /\ MayStart(w)
    /\ job' = [job EXCEPT ![w] = [feed |-> "market"]]
    /\ \E driver \in BOOLEAN :
         /\ pc' = [pc EXCEPT ![w] = IF driver THEN "m_loop" ELSE "done"]
         /\ outcome' = [outcome EXCEPT ![w] = IF driver THEN "running" ELSE "skipped"]
    /\ UNCHANGED <<chainVars, pipeVars>>
    /\ UNCHANGED <<weatherStore, marketStore, nextId, now, ticks, written,
                   before>>

\* for price_data in market_data: the next row r, and its check query.
MarketCheck(w, r) ==
    /\ pc[w] = "m_loop"
    /\ written < MaxWrites
    /\ written' = written + 1
    /\ job' = [job EXCEPT ![w] = [feed |-> "market", data |-> r]]
    /\ before' = [before EXCEPT ![w] =
                    { m.price : m \in CurrentMarket(marketStore, r) }]
    /\ pc' = [pc EXCEPT ![w] =
                IF CheckMarket(marketStore, r) THEN "m_update" ELSE "m_mark"]
    /\ UNCHANGED <<chainVars, pipeVars>>
    /\ UNCHANGED <<weatherStore, marketStore, nextId, now, ticks, outcome>>

MarketUpdate(w) ==
    /\ pc[w] = "m_update"
    /\ marketStore' = UpdateMarket(marketStore, job[w].data)
    /\ pc' = [pc EXCEPT ![w] = "m_loop"]
    /\ UNCHANGED <<chainVars, pipeVars>>
    /\ UNCHANGED <<weatherStore, nextId, now, ticks, written, job, outcome,
                   before>>

MarketMarkOld(w) ==
    /\ pc[w] = "m_mark"
    /\ marketStore' = MarkOldMarket(marketStore, job[w].data)
    /\ pc' = [pc EXCEPT ![w] = "m_create"]
    /\ UNCHANGED <<chainVars, pipeVars>>
    /\ UNCHANGED <<weatherStore, nextId, now, ticks, written, job, outcome,
                   before>>

MarketCreate(w) ==
    /\ pc[w] = "m_create"
    /\ marketStore' = CreateMarket(marketStore, nextId, job[w].data)
    /\ nextId' = nextId + 1
    /\ pc' = [pc EXCEPT ![w] = "m_loop"]
    /\ UNCHANGED <<chainVars, pipeVars>>
    /\ UNCHANGED <<weatherStore, now, ticks, written, job, outcome, before>>

\* The list is exhausted: the cleanup statement runs and the procedure ends.
MarketCleanup(w) ==
    /\ pc[w] = "m_loop"
    /\ marketStore' = CleanupMarket(marketStore, now)
    /\ pc' = [pc EXCEPT ![w] = "done"]
    /\ outcome' = [outcome EXCEPT ![w] = "ok"]
    /\ UNCHANGED <<chainVars, pipeVars>>
    /\ UNCHANGED <<weatherStore, nextId, now, ticks, written, job, before>>

\* session.run raises: the statement has no effect, the except clause of the
\* procedure logs the error and the procedure returns.
StatementFails(w) ==
    /\ pc[w] \in WeatherPcs \cup MarketPcs
    /\ pc' = [pc EXCEPT ![w] = "done"]
    /\ outcome' = [outcome EXCEPT ![w] = "error"]
    /\ UNCHANGED <<chainVars, pipeVars>>
    /\ UNCHANGED <<weatherStore, marketStore, nextId, now, ticks, written,
                   job, before>>

\* The procedure has returned to its caller.
Finish(w) ==
    /\ pc[w] = "done"
    /\ pc' = [pc EXCEPT ![w] = "idle"]
    /\ job' = [job EXCEPT ![w] = NoJob]
    /\ outcome' = [outcome EXCEPT ![w] = "none"]
    /\ before' = [before EXCEPT ![w] = {}]
    /\ UNCHANGED <<chainVars, pipeVars>>
    /\ UNCHANGED <<weatherStore, marketStore, nextId, now, ticks, written>>

\* A jump that takes every snapshot written so far past both retention horizons.
TickDays == {MarketRetentionDays + 1}

\* Time passes: days go by between upserts, which take seconds.
Tick ==
    /\ \A w \in Workers : pc[w] = "idle"
    /\ ticks < MaxTicks
    /\ ticks' = ticks + 1
    /\ \E d \in TickDays : now' = now + d
    /\ UNCHANGED <<chainVars, pipeVars>>
    /\ UNCHANGED <<weatherStore, marketStore, nextId, written, pc, job,
                   outcome, before>>

Step(w) ==
    \/ WeatherMarkOld(w)
    \/ WeatherCreate(w)
    \/ WeatherCleanup(w)
    \/ \E r \in MarketRows(Some(Observed(written)), now) : MarketCheck(w, r)
    \/ MarketUpdate(w)
    \/ MarketMarkOld(w)
    \/ MarketCreate(w)
    \/ MarketCleanup(w)
    \/ StatementFails(w)
    \/ Finish(w)

Init ==
    /\ weatherStore = {}
    /\ marketStore = {}
    /\ nextId = 1
    /\ now = 0
    /\ ticks = 0
    /\ written = 0
    /\ pc = [w \in Workers |-> "idle"]
    /\ job = [w \in Workers |-> NoJob]
    /\ outcome = [w \in Workers |-> "none"]
    /\ before = [w \in Workers |-> {}]
    /\ cpc = "idle"
    /\ creq = NoRequest
    /\ result = NoResult
    /\ primaryCalls = 0
    /\ secondaryCalls = 0
    /\ mpc = "idle"
    /\ mreq = NoRequest
    /\ mresult = NoResult
    /\ mrows = <<>>
    /\ mrow = NoJob
    /\ ipc = "idle"
    /\ ireq = NoRequest
    /\ ifirst = [kind |-> "none"]
    /\ iretry = [kind |-> "none"]
    /\ completionCalls = 0
    /\ extracted = [type |-> "none"]
    /\ kpc = "idle"
    /\ kreq = [type |-> "none"]
    /\ kpos = 1
    /\ kresults = <<>>
    /\ kgCalls = <<>>
    /\ kgResult = <<>>
    /\ kstatus = "none"
    /\ epc = "idle"
    /\ ereq = [type |-> "none"]
    /\ fragments = <<>>
    /\ estatus = "none"
    /\ gpc = "idle"
    /\ greq = [type |-> "none"]
    /\ gcalls = <<>>
    /\ gout = [type |-> "none"]
    /\ ppc = "idle"
    /\ preq = [type |-> "none"]
    /\ pdata = [type |-> "none"]
    /\ ptrace = <<>>
    /\ penv = [type |-> "none"]
    /\ http = [type |-> "none"]
    /\ spc = "stopped"
    /\ scity = 1
    /\ svisited = {}
    /\ smarket = FALSE
    /\ slog = <<>>
    /\ ssleep = 0
    /\ smanual = [from |-> "none", answer |-> "none"]
    /\ areq = [variant |-> "none"]
    /\ aout = "none"

\* Upserts of several workers interleave between statements.
Next ==
    \/ \E w \in Workers, r \in Regions :
         StartWeather(w, r, Some(Observed(written)))
    \/ \E w \in Workers : StartMarket(w)
    \/ \E w \in Workers : Step(w)
    \/ Tick

Spec == Init /\ [][Next]_vars

\* Upserts do not overlap: one starts only when no other is under way.
SeqNext ==
    \/ \E w \in Workers, r \in Regions :
         Exclusive(w) /\ StartWeather(w, r, Some(Observed(written)))
    \/ \E w \in Workers : Exclusive(w) /\ StartMarket(w)
    \/ \E w \in Workers : Step(w)
    \/ Tick

SeqSpec == Init /\ [][SeqNext]_vars

-----------------------------------------------------------------------------
(* The weather provider chain: upsert_weather_for_city (city path) and        *)
(* get_weather_data_by_gps / fetch_indian_weather_data_by_coords (GPS path)   *)

\* What a request to the primary provider (Indian Weather API) can come to:
\* a 2xx body with the observation, a 500, another non-2xx status, a body
\* that is no JSON, a JSON body that is no object (or whose "current" is
\* none), a JSON object without "current" or without its observation fields.
PrimaryOutcomes ==
    {"ok", "http_500", "http_404", "unparseable", "not_object", "no_fields"}

\* What a fetch from the secondary provider (Open-Meteo) can come to: an
\* observation, an error of the client call or of the decoding, or no client
\* at all (openmeteo_requests not installed).
SecondaryOutcomes == {"ok", "error", "no_client"}

\* The cities a request may name: the configured ones and one that is not.
UnknownCity == "Ooty"
Cities == Regions \cup {UnknownCity}

\* The primary fetch raises: raise_for_status on a non-2xx status,
\* response.json() on a body that is no JSON, .get on a value that is no
\* dict. A dict without the fields goes through: every field is read with
\* .get and comes out as None.
PrimaryRaises(o) == o \in {"http_500", "http_404", "unparseable", "not_object"}

\* The dict the primary fetch returns (source is a ghost field: it records
\* the provider the observation came from and is never stored).
PrimaryData(region, o, n, t) ==
    [region |-> region,
     temperature |-> IF o = "ok" THEN Some(Observed(n)) ELSE None,
     timestamp |-> IsoString(t),
     source |-> "primary"]

SecondaryRaises(o) == o # "ok"

SecondaryData(region, n, t) ==
    [region |-> region,
     temperature |-> Some(Observed(n)),
     timestamp |-> IsoString(t),
     source |-> "secondary"]

\* Where _update_weather_in_kg stops: the driver is None, one of its three
\* statements raises, or nothing fails.
PersistFailures == {"no_driver", "mark", "create", "cleanup", "none"}

\* _update_weather_in_kg as one call: the statements up to the failing one.
\* It never raises to its caller.
UpdateWeatherInKg(store, id, data, t, fail) ==
    IF fail \in {"no_driver", "mark"} THEN store
    ELSE IF fail = "create" THEN MarkOldWeather(store, data.region)
    ELSE IF fail = "cleanup"
        THEN CreateWeather(MarkOldWeather(store, data.region), id, data)
    ELSE CleanupWeather(
             CreateWeather(MarkOldWeather(store, data.region), id, data), t)

Created(fail) == fail \in {"cleanup", "none"}

\* except Exception: raise RuntimeError("Failed to fetch weather data for
\* {city} from both Indian Weather API and Open-Meteo"): the store is not read.
OnBothFailed(store, region) == [cpc |-> "raised", result |-> NoResult]

\* upsert_weather_for_city(city) is called; key: the primary's API key is set.
StartCity(city, key) ==
    /\ cpc = "idle"
    /\ written < MaxWrites
    /\ creq' = [path |-> "city", city |-> city, key |-> key,
                primary |-> "not_called", secondary |-> "not_called"]
    /\ cpc' = IF key THEN "primary" ELSE "secondary"
    /\ result' = NoResult
    /\ primaryCalls' = 0
    /\ secondaryCalls' = 0
    /\ UNCHANGED <<workerVars, pipeVars>>
    /\ UNCHANGED <<weatherStore, marketStore, nextId, now, ticks, written>>

\* fetch_indian_weather_data(city): an unknown city raises before any request.
CityPrimary(o) ==
    /\ cpc = "primary"
    /\ IF creq.city \notin Regions
       THEN /\ cpc' = "secondary"
            /\ UNCHANGED <<creq, result, primaryCalls>>
       ELSE /\ primaryCalls' = primaryCalls + 1
            /\ creq' = [creq EXCEPT !.primary = o]
            /\ IF PrimaryRaises(o)
               THEN cpc' = "secondary" /\ UNCHANGED result
               ELSE /\ cpc' = "persist"
                    /\ result' = PrimaryData(creq.city, o, written, now)
    /\ UNCHANGED <<workerVars, pipeVars>>
    /\ UNCHANGED <<weatherStore, marketStore, nextId, now, ticks, written,
                   secondaryCalls>>

\* fetch_weather_data(city), the fallback.
CitySecondary(o) ==
    /\ cpc = "secondary"
    /\ secondaryCalls' = secondaryCalls + 1
    /\ IF creq.city \notin Regions \/ SecondaryRaises(o)
       THEN /\ creq' = [creq EXCEPT !.secondary = "failed"]
            /\ cpc' = OnBothFailed(weatherStore, creq.city).cpc
            /\ result' = OnBothFailed(weatherStore, creq.city).result
       ELSE /\ creq' = [creq EXCEPT !.secondary = "ok"]
            /\ cpc' = "persist"
            /\ result' = SecondaryData(creq.city, written, now)
    /\ UNCHANGED <<workerVars, pipeVars>>
    /\ UNCHANGED <<weatherStore, marketStore, nextId, now, ticks, written,
                   primaryCalls>>

\* Faulty variant: a statement of _update_weather_in_kg that raises is not
\* caught there, and the except clause of the provider's try block goes on
\* to the fallback.
AfterPersistRaises(fail) ==
    IF fail \in {"mark", "create", "cleanup"} THEN "secondary" ELSE "returned"

\* Where upsert_weather_for_city is after _update_weather_in_kg: the update
\* catches every exception of its statements and only warns about a missing
\* driver, so the next statement is "return data".
AfterPersist(fail) == "returned"

\* await self._update_weather_in_kg(data); return data
CityPersist(fail) ==
    /\ cpc = "persist"
    /\ weatherStore' = UpdateWeatherInKg(weatherStore, nextId, result, now, fail)
    /\ nextId' = IF Created(fail) THEN nextId + 1 ELSE nextId
    /\ written' = written + 1
    /\ cpc' = AfterPersist(fail)
    /\ UNCHANGED <<workerVars, pipeVars>>
    /\ UNCHANGED <<marketStore, now, ticks, creq, result, primaryCalls,
                   secondaryCalls>>

\* closest_city = None: no configured city has a distance below float('inf')
\* from the coordinates, which is the case of a latitude or longitude that is
\* nan or infinite.
NoClosestCity == "None"

\* The loop over config.WEATHER_CITIES: the nearest city, or None.
ClosestCities == Regions \cup {NoClosestCity}

\* get_weather_data_by_gps(latitude, longitude); closest is what the loop
\* over the configured cities leaves in closest_city.
StartGps(closest, key) ==
    /\ cpc = "idle"
    /\ creq' = [path |-> "gps", city |-> closest, key |-> key,
                primary |-> "not_called", secondary |-> "not_called"]
    /\ cpc' = "gps_primary"
    /\ result' = NoResult
    /\ primaryCalls' = 0
    /\ secondaryCalls' = 0
    /\ UNCHANGED <<workerVars, pipeVars>>
    /\ UNCHANGED <<weatherStore, marketStore, nextId, now, ticks, written>>

\* fetch_indian_weather_data_by_coords, the try block.
GpsPrimary(o) ==
    /\ cpc = "gps_primary"
    /\ IF ~creq.key
       THEN /\ cpc' = "gps_secondary"
            /\ UNCHANGED <<creq, result, primaryCalls>>
       ELSE /\ primaryCalls' = primaryCalls + 1
            /\ creq' = [creq EXCEPT !.primary = o]
            /\ IF PrimaryRaises(o)
               THEN cpc' = "gps_secondary" /\ UNCHANGED result
               ELSE /\ cpc' = "returned"
                    /\ result' = PrimaryData("coordinates", o, written, now)
    /\ UNCHANGED <<workerVars, pipeVars>>
    /\ UNCHANGED <<weatherStore, marketStore, nextId, now, ticks, written,
                   secondaryCalls>>

\* fetch_indian_weather_data_by_coords, the except block:
\* _fetch_weather_data_by_coords(latitude, longitude).
GpsSecondary(o) ==
    /\ cpc = "gps_secondary"
    /\ secondaryCalls' = secondaryCalls + 1
    /\ IF SecondaryRaises(o)
       THEN /\ cpc' = "gps_city_secondary"
            /\ creq' = [creq EXCEPT !.secondary = "failed"]
            /\ UNCHANGED result
       ELSE /\ cpc' = "returned"
            /\ creq' = [creq EXCEPT !.secondary = "ok"]
            /\ result' = SecondaryData("coordinates", written, now)
    /\ UNCHANGED <<workerVars, pipeVars>>
    /\ UNCHANGED <<weatherStore, marketStore, nextId, now, ticks, written,
                   primaryCalls>>

\* get_weather_data_by_gps, the except block: if closest_city:
\* fetch_weather_data(closest_city), else: raise HTTPException(404), which
\* the outer except clause answers as a 500 without a further fetch.
GpsCitySecondary(o) ==
    /\ cpc = "gps_city_secondary"
    /\ IF creq.city = NoClosestCity
       THEN /\ cpc' = "raised"
            /\ UNCHANGED <<creq, result, secondaryCalls>>
       ELSE /\ secondaryCalls' = secondaryCalls + 1
            /\ IF SecondaryRaises(o)
               THEN /\ cpc' = "raised"
                    /\ UNCHANGED <<creq, result>>
               ELSE /\ cpc' = "returned"
                    /\ creq' = [creq EXCEPT !.secondary = "ok"]
                    /\ result' = SecondaryData(<<"Near", creq.city>>, written, now)
    /\ UNCHANGED <<workerVars, pipeVars>>
    /\ UNCHANGED <<weatherStore, marketStore, nextId, now, ticks, written,
                   primaryCalls>>

\* The request has returned or raised to its caller.
ChainFinish ==
    /\ cpc \in {"returned", "raised"}
    /\ cpc' = "idle"
    /\ creq' = NoRequest
    /\ result' = NoResult
    /\ primaryCalls' = 0
    /\ secondaryCalls' = 0
    /\ UNCHANGED <<workerVars, pipeVars>>
    /\ UNCHANGED <<weatherStore, marketStore, nextId, now, ticks, written>>

\* Days go by between two requests.
ChainTick ==
    /\ cpc = "idle"
    /\ ticks < MaxTicks
    /\ ticks' = ticks + 1
    /\ \E d \in TickDays : now' = now + d
    /\ UNCHANGED <<workerVars, pipeVars>>
    /\ UNCHANGED <<weatherStore, marketStore, nextId, written>>
    /\ UNCHANGED <<chainVars, pipeVars>>

ChainNext ==
    \/ \E c \in Cities, key \in BOOLEAN : StartCity(c, key)
    \/ \E o \in PrimaryOutcomes : CityPrimary(o)
    \/ \E o \in SecondaryOutcomes : CitySecondary(o)
    \/ \E f \in PersistFailures : CityPersist(f)
    \/ \E c \in ClosestCities, key \in BOOLEAN : StartGps(c, key)
    \/ \E o \in PrimaryOutcomes : GpsPrimary(o)
    \/ \E o \in SecondaryOutcomes : GpsSecondary(o)
    \/ \E o \in SecondaryOutcomes : GpsCitySecondary(o)
    \/ ChainFinish
    \/ ChainTick

ChainSpec == Init /\ [][ChainNext]_vars

-----------------------------------------------------------------------------
(* Properties of the Temporal Cache *)

MarketKeys ==
    [commodity : Commodities, market : Markets, date : Dates \cup {NullDate}]

AtMostOneCurrentPerKey ==
    /\ \A r \in Regions : Cardinality(CurrentWeather(weatherStore, r)) <= 1
    /\ \A k \in MarketKeys : Cardinality(CurrentMarket(marketStore, k)) <= 1

Quiet == \A w \in Workers : pc[w] \in {"idle", "done"}

\* The snapshot's instant lies more than d days before t.
OlderThan(n, t, d) == n.timestamp.at < t - d

\* C1: when upserts do not overlap, whatever upserts and sweeps have run
\* (failed ones included), every subject key - a region for weather, a
\* commodity+market+date triple for market - has at most one snapshot marked
\* current.
C1_AtMostOneCurrent == AtMostOneCurrentPerKey

\* A region upserted twice: two snapshots, one of them current, the upsert
\* that wrote the second one having run its sweep.
C1_Witness ==
    \E w \in Workers : \E a, b \in weatherStore :
        /\ pc[w] = "done" /\ outcome[w] = "ok" /\ job[w].feed = "weather"
        /\ a.region = job[w].data.region /\ b.region = a.region
        /\ ~a.is_current /\ b.is_current

WeatherWritten(w) ==
    /\ job[w].feed = "weather"
    /\ pc[w] = "w_cleanup" \/ (pc[w] = "done" /\ outcome[w] = "ok")

MarketRowWritten(w) ==
    /\ job[w].feed = "market"
    /\ "data" \in DOMAIN job[w]
    /\ pc[w] = "m_loop" \/ (pc[w] = "done" /\ outcome[w] = "ok")

\* C2: when upserts do not overlap, once an upsert of value v for key k has
\* written without failure, exactly one snapshot of k is current and it
\* carries v - whatever was upserted for k before; weather and market alike.
C2_CurrentIsLastUpsert ==
    \A w \in Workers :
        /\ WeatherWritten(w) =>
             LET cur == CurrentWeather(weatherStore, job[w].data.region)
             IN  /\ Cardinality(cur) = 1
                 /\ \A n \in cur : n.temperature = job[w].data.temperature
        /\ MarketRowWritten(w) =>
             LET cur == CurrentMarket(marketStore, job[w].data)
             IN  /\ Cardinality(cur) = 1
                 /\ \A n \in cur : n.price = job[w].data.price

\* upsert(k, v1) then upsert(k, v2) on the market feed: the key was current
\* with another price when the second upsert began.
C2_Witness ==
    \E w \in Workers :
        /\ MarketRowWritten(w)
        /\ pc[w] = "done"
        /\ before[w] # {}
        /\ job[w].data.price \notin before[w]

\* The same on the weather feed.
C2_WitnessWeather ==
    \E w \in Workers :
        /\ WeatherWritten(w)
        /\ pc[w] = "done"
        /\ before[w] # {}
        /\ job[w].data.temperature \notin before[w]

\* C3: when the statements of two upserts interleave, no key has two current
\* snapshots once no upsert is under way.
C3_NoTwoCurrentAfterRace == Quiet => AtMostOneCurrentPerKey

\* The node keeps its is_current flag and its observation over the step.
WeatherFieldsKept(n) ==
    \A n2 \in weatherStore' :
        n2.id = n.id => n2.is_current = n.is_current /\ n2.temperature = n.temperature

MarketFieldsKept(n) ==
    \A n2 \in marketStore' :
        n2.id = n.id => n2.is_current = n.is_current /\ n2.price = n.price

\* Worker w runs a statement of a weather upsert / of a market row.
WeatherStatement(w) == pc[w] \in WeatherPcs /\ pc'[w] # pc[w]
MarketStatement(w) ==
    pc[w] \in MarketPcs /\ pc'[w] # pc[w] /\ "data" \in DOMAIN job[w]

\* C4 (as stated): a statement of an upsert never changes the flag or the
\* observation of a snapshot of another subject key, the market key being the
\* commodity+market+date triple.
C4_OtherKeysUntouched ==
    [][\A w \in Workers :
         /\ WeatherStatement(w) =>
              /\ marketStore' = marketStore
              /\ \A n \in weatherStore :
                   n.region # job[w].data.region => WeatherFieldsKept(n)
         /\ MarketStatement(w) =>
              /\ weatherStore' = weatherStore
              /\ \A n \in marketStore :
                   ~SameTriple(n, job[w].data) => MarketFieldsKept(n)]_vars

\* C5: a key that had a current snapshot when an upsert for it started has
\* one in every state until the upsert has returned.
C5_KeyKeepsACurrent ==
    \A w \in Workers :
        (job[w].feed = "weather" /\ before[w] # {})
            => CurrentWeather(weatherStore, job[w].data.region) # {}

SweptWeather(w) == pc[w] = "w_cleanup" /\ pc'[w] = "done" /\ outcome'[w] = "ok"
SweptMarket(w) ==
    pc[w] = "m_loop" /\ pc'[w] = "done" /\ outcome'[w] = "ok"

Removed(n, store2) == \A n2 \in store2 : n2.id # n.id

\* C6: no step removes a snapshot younger than its feed's horizon, and after
\* a sweep of a feed no snapshot of the feed older than the horizon is left.
C6_SweepHonoursHorizon ==
    [][/\ \A n \in weatherStore :
            Removed(n, weatherStore') => OlderThan(n, now, WeatherRetentionDays)
       /\ \A n \in marketStore :
            Removed(n, marketStore') => OlderThan(n, now, MarketRetentionDays)
       /\ (\E w \in Workers : SweptWeather(w)) =>
            \A n \in weatherStore' : ~OlderThan(n, now, WeatherRetentionDays)
       /\ (\E w \in Workers : SweptMarket(w)) =>
            \A n \in marketStore' : ~OlderThan(n, now, MarketRetentionDays)]_vars

\* What a step may do to a weather snapshot: leave it, or invalidate it.
WeatherNodeStep(n) ==
    /\ Removed(n, weatherStore') => \E w \in Workers : SweptWeather(w)
    /\ \A n2 \in weatherStore' :
         n2.id = n.id =>
            /\ n2.region = n.region
            /\ n2.temperature = n.temperature
            /\ n2.timestamp = n.timestamp
            /\ n2.is_current # n.is_current =>
                 /\ n.is_current
                 /\ \E w \in Workers : pc[w] = "w_mark" /\ pc'[w] = "w_create"

\* C7 (as stated): on every snapshot, of either feed, a step changes nothing
\* but is_current, from true to false and in the invalidation statement, and
\* only the sweep removes it.
C7_OnlyInvalidationMutates ==
    [][/\ \A n \in weatherStore : WeatherNodeStep(n)
       /\ \A n \in marketStore :
            /\ Removed(n, marketStore') => \E w \in Workers : SweptMarket(w)
            /\ \A n2 \in marketStore' :
                 n2.id = n.id =>
                    /\ n2.price = n.price
                    /\ n2.timestamp = n.timestamp
                    /\ n2.is_current # n.is_current =>
                         /\ n.is_current
                         /\ \E w \in Workers :
                              pc[w] = "m_mark" /\ pc'[w] = "m_create"]_vars

-----------------------------------------------------------------------------
(* Properties of the weather provider chain *)

Ended == cpc \in {"returned", "raised"}

\* The current snapshots of the region that are within the retention horizon.
FreshCurrent(region) ==
    { n \in CurrentWeather(weatherStore, region) :
        ~OlderThan(n, now, WeatherRetentionDays) }

\* C8 (as stated): a city request whose two providers failed returns the
\* fresh current snapshot of the region when the cache holds one.
C8_FallsBackToCache ==
    (/\ Ended
     /\ creq.path = "city"
     /\ creq.secondary = "failed"
     /\ FreshCurrent(creq.city) # {})
        => /\ cpc = "returned"
           /\ \E n \in FreshCurrent(creq.city) : result.temperature = n.temperature

\* C9: a weather request whose primary request failed has, when it ends,
\* started exactly one fetch on the secondary provider.
C9_SecondaryInvokedOnce ==
    (Ended /\ PrimaryRaises(creq.primary)) => secondaryCalls = 1

\* The same for the city path alone.
C9_CityPathOnce ==
    (Ended /\ creq.path = "city" /\ PrimaryRaises(creq.primary))
        => secondaryCalls = 1

\* C10: a primary attempt that ended in an error - a non-2xx status, an
\* unparseable body, a body without the observation fields - is neither
\* held as the request's observation nor stored as a snapshot.
C10_ErrorsFallThrough ==
    /\ (creq.path # "none" /\ creq.primary \notin {"ok", "not_called"})
          => result.source # "primary"
    /\ \A n \in weatherStore : n.temperature # None

-----------------------------------------------------------------------------
(* The market feed: upsert_market_prices = fetch_market_prices followed by   *)
(* _update_market_prices_in_kg on whatever rows the fetch returned           *)

\* The commodity filter of a request (params["filters[commodity]"]): none, a
\* commodity the cache knows in another letter case, one it does not know.
CommodityFilters == {None, Some("rice"), Some("Wheat")}

\* Cypher's toLower on the strings of the model.
ToLower(s) ==
    IF s = "Rice" THEN "rice"
    ELSE IF s = "Wheat" THEN "wheat"
    ELSE s

\* What the request to Agmarknet can come to: records, an empty record list,
\* an error (connection, non-2xx status, a body that is no JSON).
AgmarknetOutcomes == {"rows", "no_records", "error"}

\* What the read of the Knowledge Graph can come to.
CacheReadOutcomes == {"read", "no_driver", "error"}

\* MATCH (mp:LiveMarketPrice) WHERE mp.is_current = true
\*   [AND toLower(mp.commodity) = toLower($commodity)]
CacheMatches(store, filter) ==
    { m \in store :
        /\ m.is_current
        /\ \A c \in filter : ToLower(m.commodity) = ToLower(c) }

\* prices.append({...}): the row rebuilt at time t from the properties of a
\* node with price_data.get(key, default): a node without a date gives a row
\* of today's date, one without a price the price 0, one without a
\* timestamp the present instant.
RowOfNode(m, t) ==
    [commodity |-> m.commodity, market |-> m.market,
     date |-> IF m.date = NullDate THEN Today(t) ELSE m.date,
     price |-> IF m.price = None THEN Some(0) ELSE m.price,
     timestamp |-> IF m.timestamp.type = "String" THEN m.timestamp
                   ELSE IsoString(t)]

\* RETURN mp ORDER BY mp.timestamp DESC LIMIT 50: the matching nodes, latest
\* first, nodes of one instant in any order. (The model never holds 50 nodes.)
CacheReads(store, filter, t) ==
    LET nodes == CacheMatches(store, filter)
        n == Cardinality(nodes)
    IN  { [i \in 1..n |-> RowOfNode(f[i], t)] :
            f \in { g \in [1..n -> nodes] :
                      /\ \A i, j \in 1..n : i # j => g[i] # g[j]
                      /\ \A i, j \in 1..n :
                           i < j => g[i].timestamp.at >= g[j].timestamp.at } }

\* upsert_market_prices(params) is called; key: AGMARKNET_API_KEY is set.
\* Without the key fetch_market_prices raises RuntimeError inside its own
\* try block, and its except clause goes on to the Knowledge Graph.
UpsertMarketPrices(key, filter) ==
    /\ mpc = "idle"
    /\ mreq' = [path |-> "market", key |-> key, filter |-> filter]
    /\ mpc' = IF key THEN "m_provider" ELSE "m_cache"
    /\ mresult' = NoResult
    /\ mrows' = <<>>
    /\ mrow' = NoJob
    /\ UNCHANGED <<workerVars, chainVars, interpretVars, lookupVars,
                   enrichVars, genVars, coordVars,
                   schedVars, impactVars>>
    /\ UNCHANGED <<weatherStore, marketStore, nextId, now, ticks, written>>

\* _fetch_agmarknet_prices(params): the rows go to the upsert, an error to
\* the except clause of fetch_market_prices. budget: the observations the
\* model may draw before the provider has no new row to give.
FetchAgmarknetWithin(o, r, budget) ==
    /\ mpc = "m_provider"
    /\ IF o = "rows"
       THEN /\ written < budget
            /\ written' = written + 1
            /\ mresult' = [source |-> "provider", rows |-> <<r>>]
            /\ mrows' = <<r>>
            /\ mpc' = "mu_loop"
       ELSE IF o = "no_records"
       THEN /\ mresult' = [source |-> "provider", rows |-> <<>>]
            /\ mrows' = <<>>
            /\ mpc' = "mu_loop"
            /\ UNCHANGED written
       ELSE /\ mpc' = "m_cache"
            /\ UNCHANGED <<mresult, mrows, written>>
    /\ UNCHANGED <<mreq, mrow>>
    /\ UNCHANGED <<workerVars, chainVars, interpretVars, lookupVars,
                   enrichVars, genVars, coordVars,
                   schedVars, impactVars>>
    /\ UNCHANGED <<weatherStore, marketStore, nextId, now, ticks>>

\* The fetch of a request served by the API.
FetchAgmarknetPrices(o, r) ==
    /\ mreq.path = "market"
    /\ FetchAgmarknetWithin(o, r, MaxWrites)

\* fetch_market_prices, the except clause: the current rows of the Knowledge
\* Graph if there are any, else the empty list.
FetchFromKnowledgeGraph(o) ==
    /\ mpc = "m_cache"
    /\ \E rows \in CacheReads(marketStore, mreq.filter, now) :
         IF o = "read" /\ rows # <<>>
         THEN /\ mresult' = [source |-> "cache", rows |-> rows]
              /\ mrows' = rows
         ELSE /\ mresult' = [source |-> "nothing", rows |-> <<>>]
              /\ mrows' = <<>>
    /\ mpc' = "mu_loop"
    /\ UNCHANGED <<mreq, mrow>>
    /\ UNCHANGED <<workerVars, chainVars, interpretVars, lookupVars,
                   enrichVars, genVars, coordVars,
                   schedVars, impactVars>>
    /\ UNCHANGED <<weatherStore, marketStore, nextId, now, ticks, written>>

\* _update_market_prices_in_kg(data), for price_data in market_data: the next
\* row and its check query.
RequestCheck ==
    /\ mpc = "mu_loop"
    /\ mrows # <<>>
    /\ mrow' = Head(mrows)
    /\ mrows' = Tail(mrows)
    /\ mpc' = IF CheckMarket(marketStore, Head(mrows))
              THEN "mu_update" ELSE "mu_mark"
    /\ UNCHANGED <<mreq, mresult>>
    /\ UNCHANGED <<workerVars, chainVars, interpretVars, lookupVars,
                   enrichVars, genVars, coordVars,
                   schedVars, impactVars>>
    /\ UNCHANGED <<weatherStore, marketStore, nextId, now, ticks, written>>

RequestUpdate ==
    /\ mpc = "mu_update"
    /\ marketStore' = UpdateMarket(marketStore, mrow)
    /\ mpc' = "mu_loop"
    /\ UNCHANGED <<mreq, mresult, mrows, mrow>>
    /\ UNCHANGED <<workerVars, chainVars, interpretVars, lookupVars,
                   enrichVars, genVars, coordVars,
                   schedVars, impactVars>>
    /\ UNCHANGED <<weatherStore, nextId, now, ticks, written>>

RequestMarkOld ==
    /\ mpc = "mu_mark"
    /\ marketStore' = MarkOldMarket(marketStore, mrow)
    /\ mpc' = "mu_create"
    /\ UNCHANGED <<mreq, mresult, mrows, mrow>>
    /\ UNCHANGED <<workerVars, chainVars, interpretVars, lookupVars,
                   enrichVars, genVars, coordVars,
                   schedVars, impactVars>>
    /\ UNCHANGED <<weatherStore, nextId, now, ticks, written>>

RequestCreate ==
    /\ mpc = "mu_create"
    /\ marketStore' = CreateMarket(marketStore, nextId, mrow)
    /\ nextId' = nextId + 1
    /\ mpc' = "mu_loop"
    /\ UNCHANGED <<mreq, mresult, mrows, mrow>>
    /\ UNCHANGED <<workerVars, chainVars, interpretVars, lookupVars,
                   enrichVars, genVars, coordVars,
                   schedVars, impactVars>>
    /\ UNCHANGED <<weatherStore, now, ticks, written>>

\* The rows are exhausted: the cleanup statement, then return data.
RequestCleanup ==
    /\ mpc = "mu_loop"
    /\ mrows = <<>>
    /\ marketStore' = CleanupMarket(marketStore, now)
    /\ mpc' = "returned"
    /\ UNCHANGED <<mreq, mresult, mrows, mrow>>
    /\ UNCHANGED <<workerVars, chainVars, interpretVars, lookupVars,
                   enrichVars, genVars, coordVars,
                   schedVars, impactVars>>
    /\ UNCHANGED <<weatherStore, nextId, now, ticks, written>>

\* The driver is None or a statement raises: _update_market_prices_in_kg
\* logs and returns, and upsert_market_prices returns data all the same.
RequestStatementFails ==
    /\ mpc \in {"mu_loop", "mu_update", "mu_mark", "mu_create"}
    /\ mpc' = "returned"
    /\ UNCHANGED <<mreq, mresult, mrows, mrow>>
    /\ UNCHANGED <<workerVars, chainVars, interpretVars, lookupVars,
                   enrichVars, genVars, coordVars,
                   schedVars, impactVars>>
    /\ UNCHANGED <<weatherStore, marketStore, nextId, now, ticks, written>>

\* upsert_market_prices has returned to its caller.
UpsertMarketReturn ==
    /\ mpc = "returned"
    /\ mpc' = "idle"
    /\ mreq' = NoRequest
    /\ mresult' = NoResult
    /\ mrows' = <<>>
    /\ mrow' = NoJob
    /\ UNCHANGED <<workerVars, chainVars, interpretVars, lookupVars,
                   enrichVars, genVars, coordVars,
                   schedVars, impactVars>>
    /\ UNCHANGED <<weatherStore, marketStore, nextId, now, ticks, written>>

\* The statements of a market upsert run by another process.
MarketStep(w) ==
    \/ \E r \in MarketRows(Some(Observed(written)), now) : MarketCheck(w, r)
    \/ MarketUpdate(w)
    \/ MarketMarkOld(w)
    \/ MarketCreate(w)
    \/ MarketCleanup(w)
    \/ Finish(w)

\* The process whose scheduler upserts the market feed while a request is served.
Scheduler == "w1"

\* A market request, and the scheduler of another process upserting the
\* same feed between the request's statements.
MarketNext ==
    \/ \E key \in BOOLEAN, f \in CommodityFilters : UpsertMarketPrices(key, f)
    \/ \E o \in AgmarknetOutcomes :
         \E r \in MarketRows(Some(Observed(written)), now) :
             FetchAgmarknetPrices(o, r)
    \/ \E o \in CacheReadOutcomes : FetchFromKnowledgeGraph(o)
    \/ RequestCheck
    \/ RequestUpdate
    \/ RequestMarkOld
    \/ RequestCreate
    \/ RequestCleanup
    \/ RequestStatementFails
    \/ UpsertMarketReturn
    \/ StartMarket(Scheduler)
    \/ MarketStep(Scheduler)

MarketSpec == Init /\ [][MarketNext]_vars

-----------------------------------------------------------------------------
(* Properties of the market feed *)

\* C11: when the market provider credential is absent, a market fetch ends
\* in an error its caller sees: once the request is over it has raised, and
\* it has handed back neither rows of the cache nor an empty list.
C11_MissingKeyIsAnError ==
    (mpc = "returned" /\ ~mreq.key) => mresult.source = "raised"

\* C12: a step of a market request whose rows were served from the cache
\* leaves every LiveMarketPrice node as it was: none created, changed or
\* deleted.
C12_CacheServedOnlyReads ==
    [][(mpc \in {"mu_loop", "mu_update", "mu_mark", "mu_create"}
          /\ mresult.source = "cache" /\ mpc' # mpc)
       => marketStore' = marketStore]_vars

-----------------------------------------------------------------------------
(* Interpretation: RAGPipeline.interpret and the completion service          *)

\* The nine intents the interpretation prompt names.
Intents ==
    {"weather", "market", "diagnosis", "treatment", "advisory",
     "fertilizer_recommendation", "pest_control", "disease_management",
     "general"}

\* A Python dict with string keys is a function on the keys it holds;
\* d.get(k) is None for a key it does not hold.
EmptyDict == <<>>
Get(d, k) == IF k \in DOMAIN d THEN d[k] ELSE None

\* A JSON object {"entities": ..., "intent": ...} as json.loads returns it.
Extraction(entities, intent) ==
    [type |-> "object", entities |-> entities, intent |-> intent]

\* return {"entities": {}, "intent": "general"}
DefaultExtraction == Extraction(EmptyDict, "general")

\* The JSON values a completion may carry: an extraction with an intent of
\* the list, one with an intent the model made up, an object without the two
\* keys, and a value that is no object (an array).
JsonValues ==
    { Extraction([region |-> Some("Chennai")], "weather"),
      Extraction(EmptyDict, "greeting"),
      [type |-> "object"],
      [type |-> "array"] }

\* A completion text is a sequence of tokens: a run of white space (blanks,
\* line ends), a code fence ```, the word json, a JSON value, other prose.
\* Tokens that follow each other without a Space are glued in the string.
Space == [tok |-> "space"]
Fence == [tok |-> "fence"]
JsonWord == [tok |-> "json"]
Prose == [tok |-> "prose"]
Value(v) == [tok |-> "value", value |-> v]

\* str.strip()
RECURSIVE StripLeft(_)
StripLeft(s) ==
    IF s # <<>> /\ Head(s) = Space THEN StripLeft(Tail(s)) ELSE s

RECURSIVE StripRight(_)
StripRight(s) ==
    IF s # <<>> /\ s[Len(s)] = Space
    THEN StripRight(SubSeq(s, 1, Len(s) - 1)) ELSE s

Strip(s) == StripRight(StripLeft(s))

Prefixes ==
    {<<>>, <<Fence, JsonWord>>, <<Fence, JsonWord, Space>>,
     <<Fence, Space, JsonWord, Space>>, <<Fence>>, <<JsonWord>>, <<Prose>>}
Bodies == { <<Value(v)>> : v \in JsonValues } \cup {<<>>, <<Prose>>}
Suffixes ==
    {<<>>, <<Fence>>, <<Space, Fence>>, <<Prose>>, <<Fence, Space, Prose>>}

Texts == { p \o b \o s : p \in Prefixes, b \in Bodies, s \in Suffixes }

\* What a call of chat.completions.create can come to: an exception of the
\* client, a json.JSONDecodeError raised by the client (a 200 whose body is
\* no JSON), a message whose content is None, a message with a text.
Completions ==
    {[kind |-> "error"], [kind |-> "decode_error"], [kind |-> "no_content"]}
        \cup { [kind |-> "text", text |-> t] : t \in Texts }

\* str.startswith / str.endswith on token sequences.
StartsWith(t, p) ==
    Len(t) >= Len(p) /\ \A i \in 1..Len(p) : t[i] = p[i]

EndsWith(t, p) ==
    Len(t) >= Len(p) /\ \A i \in 1..Len(p) : t[Len(t) - Len(p) + i] = p[i]

Drop(t, n) == SubSeq(t, n + 1, Len(t))

\* The first attempt's clean-up:
\*   content.strip(); if startswith("```json"): [7:];
\*   if startswith("```"): [3:]; if endswith("```"): [:-3]; strip()
\* The text is stripped before the three tests and after them, not between
\* them.
FirstClean(t) ==
    LET s == Strip(t)
        a == IF StartsWith(s, <<Fence, JsonWord>>) THEN Drop(s, 2) ELSE s
        b == IF StartsWith(a, <<Fence>>) THEN Drop(a, 1) ELSE a
        c == IF EndsWith(b, <<Fence>>) THEN SubSeq(b, 1, Len(b) - 1) ELSE b
    IN  Strip(c)

\* t.split("```")[1] for a text that starts with a fence: what lies between
\* the first fence and the next one (or the end).
SecondSegment(t) ==
    LET rest == Drop(t, 1)
        fences == { i \in 1..Len(rest) : rest[i] = Fence }
        stop == IF fences = {} THEN Len(rest) + 1
                ELSE CHOOSE i \in fences : \A j \in fences : i <= j
    IN  SubSeq(rest, 1, stop - 1)

\* The retry's clean-up:
\*   content.strip(); if startswith("```"): split("```")[1].strip();
\*   if startswith("json"): [4:].strip()
RetryClean(t) ==
    LET s == Strip(t)
        a == IF StartsWith(s, <<Fence>>) THEN Strip(SecondSegment(s)) ELSE s
    IN  IF StartsWith(a, <<JsonWord>>) THEN Strip(Drop(a, 1)) ELSE a

\* json.loads: the value when the text is one JSON value with nothing but
\* white space around it, the empty sequence for JSONDecodeError.
JsonLoads(t) ==
    LET s == Strip(t)
    IN  IF Len(s) = 1 /\ s[1].tok = "value" THEN <<s[1].value>> ELSE <<>>

Raised(exc) == [raised |-> TRUE, exc |-> exc]
Returned(v) == [raised |-> FALSE, value |-> v]

\* The try block of interpret: the call, the clean-up, json.loads and the log
\* line, which reads extracted.get(...) and so needs a dict.
FirstAttempt(c) ==
    IF c.kind = "error" THEN Raised("APIError")
    ELSE IF c.kind = "decode_error" THEN Raised("JSONDecodeError")
    ELSE IF c.kind = "no_content" THEN Raised("AttributeError")
    ELSE LET loaded == JsonLoads(FirstClean(c.text))
         IN  IF loaded = <<>> THEN Raised("JSONDecodeError")
             ELSE IF loaded[1].type # "object" THEN Raised("AttributeError")
             ELSE Returned(loaded[1])

\* Faulty variant: no retry, every exception gives the default.
FirstHandlerNoRetry(exc) == "default"

\* except json.JSONDecodeError: retry; except Exception: the default.
FirstHandler(exc) == IF exc = "JSONDecodeError" THEN "retry" ELSE "default"

\* result_text = response.choices[0].message.content.strip(): the local
\* variable is bound once the call has returned a message with a text.
ResultTextBound(c) == c.kind = "text"

\* The except json.JSONDecodeError clause starts with a log line that reads
\* result_text[:200]: with result_text unbound it raises UnboundLocalError,
\* which no clause of interpret catches.
DecodeErrorClause(c) == IF ResultTextBound(c) THEN "retry" ELSE "raised"

\* The try block of the retry: whatever json.loads returns is returned.
RetryAttempt(c) ==
    IF c.kind = "error" THEN Raised("APIError")
    ELSE IF c.kind = "decode_error" THEN Raised("JSONDecodeError")
    ELSE IF c.kind = "no_content" THEN Raised("AttributeError")
    ELSE LET loaded == JsonLoads(RetryClean(c.text))
         IN  IF loaded = <<>> THEN Raised("JSONDecodeError")
             ELSE Returned(loaded[1])

\* except: (bare) catches every exception of the retry.
RetryCatches(exc) == TRUE

Queries == {"weather in Chennai?", "hello"}

\* interpret(query) is called; client: self.groq_client is set.
Interpret(query, client) ==
    /\ ipc = "idle"
    /\ ireq' = [path |-> "interpret", query |-> query, client |-> client]
    /\ completionCalls' = 0
    /\ ifirst' = [kind |-> "none"]
    /\ iretry' = [kind |-> "none"]
    /\ IF client
       THEN ipc' = "first" /\ extracted' = [type |-> "none"]
       ELSE ipc' = "returned" /\ extracted' = DefaultExtraction
    /\ UNCHANGED <<workerVars, chainVars, marketVars, lookupVars, enrichVars,
                   genVars, coordVars,
                   schedVars, impactVars>>
    /\ UNCHANGED <<weatherStore, marketStore, nextId, now, ticks, written>>

\* The first completion call and what interpret makes of it.
FirstCompletion(c) ==
    /\ ipc = "first"
    /\ completionCalls' = completionCalls + 1
    /\ ifirst' = c
    /\ LET a == FirstAttempt(c)
       IN  IF ~a.raised
           THEN ipc' = "returned" /\ extracted' = a.value
           ELSE IF FirstHandler(a.exc) = "retry"
           THEN ipc' = DecodeErrorClause(c) /\ UNCHANGED extracted
           ELSE ipc' = "returned" /\ extracted' = DefaultExtraction
    /\ UNCHANGED <<ireq, iretry>>
    /\ UNCHANGED <<workerVars, chainVars, marketVars, lookupVars, enrichVars,
                   genVars, coordVars,
                   schedVars, impactVars>>
    /\ UNCHANGED <<weatherStore, marketStore, nextId, now, ticks, written>>

\* The second completion call, with the simplified prompt.
RetryCompletion(c) ==
    /\ ipc = "retry"
    /\ completionCalls' = completionCalls + 1
    /\ iretry' = c
    /\ LET a == RetryAttempt(c)
       IN  IF ~a.raised
           THEN ipc' = "returned" /\ extracted' = a.value
           ELSE IF RetryCatches(a.exc)
           THEN ipc' = "returned" /\ extracted' = DefaultExtraction
           ELSE ipc' = "raised" /\ UNCHANGED extracted
    /\ UNCHANGED <<ireq, ifirst>>
    /\ UNCHANGED <<workerVars, chainVars, marketVars, lookupVars, enrichVars,
                   genVars, coordVars,
                   schedVars, impactVars>>
    /\ UNCHANGED <<weatherStore, marketStore, nextId, now, ticks, written>>

\* interpret has returned to (or raised into) the pipeline.
InterpretReturn ==
    /\ ipc \in {"returned", "raised"}
    /\ ipc' = "idle"
    /\ ireq' = NoRequest
    /\ completionCalls' = 0
    /\ ifirst' = [kind |-> "none"]
    /\ iretry' = [kind |-> "none"]
    /\ extracted' = [type |-> "none"]
    /\ UNCHANGED <<workerVars, chainVars, marketVars, lookupVars, enrichVars,
                   genVars, coordVars,
                   schedVars, impactVars>>
    /\ UNCHANGED <<weatherStore, marketStore, nextId, now, ticks, written>>

InterpretNext ==
    \/ \E q \in Queries, client \in BOOLEAN : Interpret(q, client)
    \/ \E c \in Completions : FirstCompletion(c)
    \/ \E c \in Completions : RetryCompletion(c)
    \/ InterpretReturn

InterpretSpec == Init /\ [][InterpretNext]_vars

-----------------------------------------------------------------------------
(* Properties of interpret *)

\* The first reply was a text that json.loads rejects after the clean-up.
FirstUnparseable(c) ==
    c.kind = "text" /\ JsonLoads(FirstClean(c.text)) = <<>>

\* The second attempt failed: the call raised, or its text did not load.
RetryFailed(c) ==
    c.kind # "text" \/ JsonLoads(RetryClean(c.text)) = <<>>

\* C13 (as stated): interpret never raises: whatever the completion service
\* does (no client, an error of the first or of the second call, output that
\* does not parse), the call ends by returning a value.
C13_InterpretNeverRaises ==
    /\ ipc # "raised"
    /\ ipc = "returned" => extracted.type # "none"

\* C14: every value interpret returns is an object with an entities map and
\* an intent that is one of the nine of the list.
C14_IntentInEnum ==
    ipc = "returned" =>
        /\ extracted.type = "object"
        /\ {"entities", "intent"} \subseteq DOMAIN extracted
        /\ extracted.intent \in Intents

\* C15: interpret makes at most two completion calls; it makes the second
\* one exactly when the first call returned a text that failed to parse; and
\* when the second attempt fails too it returns {entities: {}, intent: general}.
C15_RetryOnceOnParseFailure ==
    /\ completionCalls <= 2
    /\ ipc = "retry" => completionCalls = 1 /\ FirstUnparseable(ifirst)
    /\ ipc = "raised" => completionCalls = 1 /\ ~FirstUnparseable(ifirst)
    /\ (ipc = "returned" /\ ireq.client) =>
         (completionCalls = 2 <=> FirstUnparseable(ifirst))
    /\ (ipc = "returned" /\ completionCalls = 2 /\ RetryFailed(iretry)) =>
         extracted = DefaultExtraction

\* The first text did not parse, a second call was made and its text did
\* not parse either: the default was returned.
C15_Witness ==
    /\ ipc = "returned"
    /\ completionCalls = 2
    /\ iretry.kind = "text"
    /\ RetryFailed(iretry)
    /\ extracted = DefaultExtraction

-----------------------------------------------------------------------------
(* Graph lookup: RAGPipeline.query_kg and the Neo4j connector, one store      *)
(* query per step                                                             *)

\* return unique_results[:20]
ResultCap == 20

\* A list-valued slot of the entities map: a list, or a JSON null.
List(items) == [kind |-> "list", items |-> items]
NullList == [kind |-> "null"]

\* entities.get(k, []) for the list-valued slots.
GetList(d, k) == IF k \in DOMAIN d THEN d[k] ELSE List(<<>>)

\* Faulty variant: a slot counts as filled as soon as it is not None.
TruthyIfNotNone(v) == v # None

\* if entities.get(k): None and the empty string are both false.
Truthy(v) == v # None /\ v # Some("")

TheValue(v) == CHOOSE x \in v : TRUE

\* The entities maps the lookup is called with: crop absent, empty or named;
\* one or two pests, or null instead of the list; the other slots absent or
\* filled.
EntityMaps ==
    {EmptyDict}
      \cup [crop : {None, Some(""), Some("rice")},
            pests : {List(<<>>), List(<<"aphid">>),
                     List(<<"aphid", "whitefly">>), NullList},
            diseases : {List(<<>>), List(<<"blight">>)},
            region : {None, Some("Tamil Nadu")},
            fertilizer : {None, Some("urea")},
            pesticide : {None, Some("neem")},
            treatment : {None, Some("neem")}]

\* The values query_kg is called with: what interpret may have returned.
ExtractedQueries ==
    { Extraction(e, "general") : e \in EntityMaps }
      \cup {[type |-> "object"], [type |-> "array"]}

\* dict(record["n"]): the properties of a node.
KgEntity(type, name) == [type |-> type, name |-> name]

\* A product without a name property.
Nameless == [type |-> "Fertilizer"]

\* More products than the cap lets through (the product search has LIMIT 50).
Bulk == [i \in 1..(ResultCap + 1) |-> KgEntity("Fertilizer", ToString(i))]

\* What the store may answer to a search on a label, and to the query for
\* the relations of a name.
Answers(label) ==
    IF label = "Crop" THEN {<<>>, <<KgEntity("Crop", "Rice")>>}
    ELSE IF label = "Pest" THEN {<<>>, <<KgEntity("Pest", "Aphids")>>}
    ELSE IF label = "Disease"
        THEN {<<>>, <<KgEntity("Disease", "Bacterial Blight")>>}
    ELSE IF label = "Region" THEN {<<>>, <<KgEntity("Region", "Tamil Nadu")>>}
    ELSE IF label = "Fertilizer"
        THEN {<<>>, <<KgEntity("Fertilizer", "Urea"), Nameless, Nameless>>, Bulk}
    ELSE IF label = "Pesticide"
        THEN {<<>>, <<KgEntity("Pesticide", "Neem Oil")>>}
    ELSE IF label = "ControlMethod"
        THEN {<<>>, <<KgEntity("ControlMethod", "Neem Oil"),
                      KgEntity("Pest", "Aphids")>>}
    ELSE {<<>>,
          <<KgEntity("Pest", "Aphids"), KgEntity("Disease", "Bacterial Blight")>>,
          <<KgEntity("Disease", "Bacterial Blight"), KgEntity("Pest", "Stem Borer")>>}

\* What a store query can come to: an answer, or an exception of the driver.
LookupOutcomes(label) ==
    {[failed |-> TRUE]} \cup { [failed |-> FALSE, answer |-> a] : a \in Answers(label) }

Lookup(slot, op, label, term) ==
    [slot |-> slot, op |-> op, label |-> label, term |-> term]

ScalarLookup(e, slot, op, label) ==
    IF Truthy(Get(e, slot))
    THEN <<Lookup(slot, op, label, TheValue(Get(e, slot)))>>
    ELSE <<>>

\* for x in entities.get(slot, []): one search per item; a null cannot be
\* iterated and raises TypeError.
ListLookups(e, slot, label) ==
    LET l == GetList(e, slot)
    IN  IF l.kind = "null" THEN <<Lookup(slot, "raise", label, "")>>
        ELSE [i \in 1..Len(l.items) |->
                Lookup(slot, "search_entities", label, l.items[i])]

\* The store queries of query_kg in the order of the code: crop, pests,
\* diseases, region, fertilizer, pesticide, treatment.
Plan(e) ==
    ScalarLookup(e, "crop", "search_entities", "Crop")
      \o ListLookups(e, "pests", "Pest")
      \o ListLookups(e, "diseases", "Disease")
      \o ScalarLookup(e, "region", "search_entities", "Region")
      \o ScalarLookup(e, "fertilizer", "search_fertilizers_pesticides", "Fertilizer")
      \o ScalarLookup(e, "pesticide", "search_fertilizers_pesticides", "Pesticide")
      \o ScalarLookup(e, "treatment", "search_entities", "ControlMethod")

\* Faulty variant: the connector lets the exception of the driver through.
ConnectorPropagates(o) ==
    IF o.failed THEN Raised("ServiceUnavailable") ELSE Returned(o.answer)

\* search_entities / search_fertilizers_pesticides / get_related_entities:
\* except Exception: return [] (or {}).
ConnectorResult(o) ==
    IF o.failed THEN Returned(<<>>) ELSE Returned(o.answer)

\* name = item.get("name", str(item))
DedupKey(item) ==
    IF "name" \in DOMAIN item THEN [name |-> item.name] ELSE [repr |-> item]

\* Faulty variant: of the items with one name the last is kept.
DedupKeepLast(s) ==
    LET kept == { i \in 1..Len(s) :
                    \A j \in (i + 1)..Len(s) : DedupKey(s[j]) # DedupKey(s[i]) }
        F[i \in 0..Len(s)] ==
            IF i = 0 THEN <<>>
            ELSE IF i \in kept THEN Append(F[i - 1], s[i]) ELSE F[i - 1]
    IN  F[Len(s)]

\* for item in results: if name not in seen: seen.add(name);
\*                                              unique_results.append(item)
RECURSIVE DedupLoop(_, _, _)
DedupLoop(s, seen, unique) ==
    IF s = <<>> THEN unique
    ELSE IF DedupKey(Head(s)) \in seen THEN DedupLoop(Tail(s), seen, unique)
    ELSE DedupLoop(Tail(s), seen \cup {DedupKey(Head(s))},
                   Append(unique, Head(s)))

\* seen = set(); unique_results = []; the loop
Dedup(s) == DedupLoop(s, {}, <<>>)

\* s[:n]
Take(s, n) == SubSeq(s, 1, IF Len(s) < n THEN Len(s) ELSE n)

\* if entities.get("crop") and results:
RelatedWanted(e, results) == Truthy(Get(e, "crop")) /\ results # <<>>

\* query_kg(extracted) is called. A value that is no dict has no .get: the
\* AttributeError is caught and [] returned.
QueryKg(ex) ==
    /\ kpc = "idle"
    /\ kreq' = ex
    /\ kpos' = 1
    /\ kresults' = <<>>
    /\ kgCalls' = <<>>
    /\ kgResult' = <<>>
    /\ IF ex.type = "object"
       THEN kpc' = "lookups" /\ kstatus' = "running"
       ELSE kpc' = "returned" /\ kstatus' = "exception"
    /\ UNCHANGED <<workerVars, chainVars, marketVars, interpretVars,
                   enrichVars, genVars, coordVars,
                   schedVars, impactVars>>
    /\ UNCHANGED <<weatherStore, marketStore, nextId, now, ticks, written>>

\* extracted.get("entities", {})
EntitiesOf(ex) == IF "entities" \in DOMAIN ex THEN ex.entities ELSE EmptyDict

\* The next search of the plan: results.extend(...).
SlotLookup ==
    /\ kpc = "lookups"
    /\ kpos <= Len(Plan(EntitiesOf(kreq)))
    /\ Plan(EntitiesOf(kreq))[kpos].op # "raise"
    /\ LET call == Plan(EntitiesOf(kreq))[kpos]
       IN  \E o \in LookupOutcomes(call.label) :
             /\ kgCalls' = Append(kgCalls, [lookup |-> call, outcome |-> o])
             /\ IF ConnectorResult(o).raised
                THEN /\ kpc' = "returned"
                     /\ kstatus' = "exception"
                     /\ UNCHANGED <<kresults, kpos>>
                ELSE /\ kresults' = kresults \o ConnectorResult(o).value
                     /\ kpos' = kpos + 1
                     /\ UNCHANGED <<kpc, kstatus>>
    /\ UNCHANGED <<kreq, kgResult>>
    /\ UNCHANGED <<workerVars, chainVars, marketVars, interpretVars,
                   enrichVars, genVars, coordVars,
                   schedVars, impactVars>>
    /\ UNCHANGED <<weatherStore, marketStore, nextId, now, ticks, written>>

\* A list slot holds a null: the for statement raises, except Exception
\* returns [].
SlotRaises ==
    /\ kpc = "lookups"
    /\ kpos <= Len(Plan(EntitiesOf(kreq)))
    /\ Plan(EntitiesOf(kreq))[kpos].op = "raise"
    /\ kpc' = "returned"
    /\ kstatus' = "exception"
    /\ UNCHANGED <<kreq, kpos, kresults, kgCalls, kgResult>>
    /\ UNCHANGED <<workerVars, chainVars, marketVars, interpretVars,
                   enrichVars, genVars, coordVars,
                   schedVars, impactVars>>
    /\ UNCHANGED <<weatherStore, marketStore, nextId, now, ticks, written>>

\* get_related_entities(entities["crop"]), its lists appended in the order
\* of the relationship types; then the duplicates go and the list is cut.
RelatedLookup ==
    /\ kpc = "lookups"
    /\ kpos = Len(Plan(EntitiesOf(kreq))) + 1
    /\ RelatedWanted(EntitiesOf(kreq), kresults)
    /\ LET call == Lookup("related", "get_related_entities", "Related",
                          TheValue(Get(EntitiesOf(kreq), "crop")))
       IN  \E o \in LookupOutcomes(call.label) :
             /\ kgCalls' = Append(kgCalls, [lookup |-> call, outcome |-> o])
             /\ IF ConnectorResult(o).raised
                THEN /\ kstatus' = "exception"
                     /\ UNCHANGED <<kresults, kgResult>>
                ELSE /\ kstatus' = "ok"
                     /\ kresults' = kresults \o ConnectorResult(o).value
                     /\ kgResult' =
                          Take(Dedup(kresults \o ConnectorResult(o).value),
                               ResultCap)
    /\ kpc' = "returned"
    /\ UNCHANGED <<kreq, kpos>>
    /\ UNCHANGED <<workerVars, chainVars, marketVars, interpretVars,
                   enrichVars, genVars, coordVars,
                   schedVars, impactVars>>
    /\ UNCHANGED <<weatherStore, marketStore, nextId, now, ticks, written>>

\* No crop was named or nothing was found: the duplicates go and the list
\* is cut.
NoRelatedLookup ==
    /\ kpc = "lookups"
    /\ kpos = Len(Plan(EntitiesOf(kreq))) + 1
    /\ ~RelatedWanted(EntitiesOf(kreq), kresults)
    /\ kgResult' = Take(Dedup(kresults), ResultCap)
    /\ kpc' = "returned"
    /\ kstatus' = "ok"
    /\ UNCHANGED <<kreq, kpos, kresults, kgCalls>>
    /\ UNCHANGED <<workerVars, chainVars, marketVars, interpretVars,
                   enrichVars, genVars, coordVars,
                   schedVars, impactVars>>
    /\ UNCHANGED <<weatherStore, marketStore, nextId, now, ticks, written>>

\* query_kg has returned to the pipeline.
QueryKgReturn ==
    /\ kpc \in {"returned", "raised"}
    /\ kpc' = "idle"
    /\ kreq' = [type |-> "none"]
    /\ kpos' = 1
    /\ kresults' = <<>>
    /\ kgCalls' = <<>>
    /\ kgResult' = <<>>
    /\ kstatus' = "none"
    /\ UNCHANGED <<workerVars, chainVars, marketVars, interpretVars,
                   enrichVars, genVars, coordVars,
                   schedVars, impactVars>>
    /\ UNCHANGED <<weatherStore, marketStore, nextId, now, ticks, written>>

LookupNext ==
    \/ \E ex \in ExtractedQueries : QueryKg(ex)
    \/ SlotLookup
    \/ SlotRaises
    \/ RelatedLookup
    \/ NoRelatedLookup
    \/ QueryKgReturn

LookupSpec == Init /\ [][LookupNext]_vars

-----------------------------------------------------------------------------
(* Properties of query_kg *)

ScalarSlots == {"crop", "region", "fertilizer", "pesticide", "treatment"}
ListSlots == {"pests", "diseases"}

\* No slot of the entities map names anything: every scalar slot is absent,
\* None or the empty string, every list slot absent or the empty list.
AllSlotsEmpty(e) ==
    /\ \A s \in ScalarSlots : Get(e, s) \subseteq {""}
    /\ \A s \in ListSlots : GetList(e, s) = List(<<>>)

\* The lists the store queries contributed, in the order of the calls.
Contribution(call) ==
    IF call.outcome.failed THEN <<>> ELSE call.outcome.answer

Concatenated(calls) ==
    LET F[i \in 0..Len(calls)] ==
            IF i = 0 THEN <<>> ELSE F[i - 1] \o Contribution(calls[i])
    IN  F[Len(calls)]

\* The positions of s that hold the first item of their name.
FirstOccurrences(s) ==
    { i \in 1..Len(s) : \A j \in 1..(i - 1) : DedupKey(s[j]) # DedupKey(s[i]) }

\* The k-th smallest element of a set of numbers.
Nth(S, k) == CHOOSE i \in S : Cardinality({ j \in S : j < i }) = k - 1

SlotRank(slot) ==
    IF slot = "crop" THEN 1
    ELSE IF slot = "pests" THEN 2
    ELSE IF slot = "diseases" THEN 3
    ELSE IF slot = "region" THEN 4
    ELSE IF slot = "fertilizer" THEN 5
    ELSE IF slot = "pesticide" THEN 6
    ELSE IF slot = "treatment" THEN 7
    ELSE 8

\* query_kg ran to its return statement (no exception on the way).
LookedUp == kpc = "returned" /\ kstatus = "ok"

\* C16: for an extracted query whose entity slots are all empty, query_kg
\* returns the empty sequence and has issued no store query.
C16_EmptySlotsNoQueries ==
    (kpc = "returned" /\ AllSlotsEmpty(EntitiesOf(kreq))) =>
        kgResult = <<>> /\ kgCalls = <<>>

\* An entities map that holds the slots, all of them empty (the crop an
\* empty string), has been looked up.
C16_Witness ==
    /\ LookedUp
    /\ AllSlotsEmpty(EntitiesOf(kreq))
    /\ Get(EntitiesOf(kreq), "crop") = Some("")

\* C17: the store is queried in the order crop, pests, diseases, region,
\* fertilizer, pesticide, treatment, related entities, and the result is the
\* concatenation of the answers with only the first item of every name
\* kept, in the order of these first occurrences, cut after 20 items; no two
\* items of the result have the same name.
C17_OrderedDedupedCapped ==
    LookedUp =>
        LET all == Concatenated(kgCalls)
            first == FirstOccurrences(all)
        IN  /\ \A i, j \in 1..Len(kgCalls) :
                 i < j => SlotRank(kgCalls[i].lookup.slot)
                            <= SlotRank(kgCalls[j].lookup.slot)
            /\ Len(kgResult) =
                 IF Cardinality(first) < ResultCap
                 THEN Cardinality(first) ELSE ResultCap
            /\ \A k \in 1..Len(kgResult) : kgResult[k] = all[Nth(first, k)]
            /\ \A i, j \in 1..Len(kgResult) :
                 i # j => DedupKey(kgResult[i]) # DedupKey(kgResult[j])

\* A lookup whose answers held a name twice and more than 20 names in all.
C17_Witness ==
    /\ LookedUp
    /\ Len(kgResult) = ResultCap
    /\ Cardinality(FirstOccurrences(Concatenated(kgCalls))) > ResultCap
    /\ Len(Concatenated(kgCalls))
         > Cardinality(FirstOccurrences(Concatenated(kgCalls)))

\* The crop search of this call found at least one entity.
CropFound ==
    \E i \in 1..Len(kgCalls) :
        kgCalls[i].lookup.slot = "crop" /\ Contribution(kgCalls[i]) # <<>>

RelatedFetched ==
    \E i \in 1..Len(kgCalls) : kgCalls[i].lookup.slot = "related"

\* C18: query_kg fetches the related entities of the crop when the crop
\* search found a crop entity, and issues no such fetch when it found none.
C18_RelatedOnlyForFoundCrop ==
    LookedUp => (RelatedFetched <=> CropFound)

\* The entities map is one the interpretation prompt asks for: the list
\* slots hold lists.
WellFormed(ex) ==
    /\ ex.type = "object"
    /\ \A s \in ListSlots : GetList(EntitiesOf(ex), s).kind = "list"

\* C19: query_kg never raises, and a store lookup that fails contributes
\* nothing for its slot only: every entity found by a lookup that did not
\* fail is in the result under its name, unless the result is full.
C19_FailedSlotOnly ==
    /\ kpc # "raised"
    /\ (kpc = "returned" /\ WellFormed(kreq)) =>
         /\ \A i \in 1..Len(kgCalls) :
              \A n \in 1..Len(Contribution(kgCalls[i])) :
                 \/ Len(kgResult) = ResultCap
                 \/ \E k \in 1..Len(kgResult) :
                       DedupKey(kgResult[k])
                         = DedupKey(Contribution(kgCalls[i])[n])
         /\ \A k \in 1..Len(kgResult) :
              \E i \in 1..Len(kgCalls) :
                 \E n \in 1..Len(Contribution(kgCalls[i])) :
                    kgResult[k] = Contribution(kgCalls[i])[n]

\* The crop search failed, the pest search found an entity, and the result
\* holds it.
C19_Witness ==
    /\ kpc = "returned"
    /\ kgResult # <<>>
    /\ \E i, j \in 1..Len(kgCalls) :
         /\ kgCalls[i].outcome.failed
         /\ kgCalls[i].lookup.slot = "crop"
         /\ ~kgCalls[j].outcome.failed
         /\ kgCalls[j].lookup.slot = "pests"
         /\ Contribution(kgCalls[j]) # <<>>

-----------------------------------------------------------------------------
(* Enrichment: RAGPipeline.enrich, which calls the weather chain and the      *)
(* market feed                                                                *)

\* for price in prices_sorted[:5]
PriceFragmentCap == 5

\* A JSON null where the entities map should be.
NullEntities == [null |-> TRUE]

IsDict(v) == "null" \notin DOMAIN v

\* The intents enrich is called with: two of the list that name a feed, one
\* that names none, and a text of the model's own that names both feeds.
EnrichIntents == {"weather", "market", "general", "weather, market"}

\* word in intent (substring test) on the intents of the model.
Mentions(intent, word) ==
    \/ intent = word
    \/ intent = "weather, market" /\ word \in {"weather", "market"}

\* The values enrich is called with.
EnrichQueries ==
    { Extraction(e, i) :
        e \in {EmptyDict, NullEntities}
                \cup [region : {None, Some(""), Some("Chennai"), Some(UnknownCity)},
                      crop : {None, Some("rice")}],
        i \in EnrichIntents }
      \cup {[type |-> "array"]}

\* extracted.get("intent", "general")
IntentOf(ex) == IF "intent" \in DOMAIN ex THEN ex.intent ELSE "general"

\* The text fragments, by what they say.
NeedRegion == [kind |-> "need_region"]
NeedCommodity == [kind |-> "need_commodity"]
WeatherFragment(data) ==
    [kind |-> "weather", region |-> data.region, temperature |-> data.temperature]
WeatherUnavailable(region) == [kind |-> "weather_unavailable", region |-> region]
PriceFragment(r) ==
    [kind |-> "price", commodity |-> r.commodity, market |-> r.market,
     date |-> r.date, price |-> r.price]
MarketUnavailable(commodity) ==
    [kind |-> "market_unavailable", commodity |-> commodity]

MarketFetchFailed(commodity) ==
    [kind |-> "market_fetch_failed", commodity |-> commodity]

\* The order of the date strings.
DateRank(d) ==
    IF d = "2024-01-01" THEN 1
    ELSE IF d = "2024-01-02" THEN 2
    ELSE IF d = "2024-02-02" THEN 3
    ELSE IF d = "2024-03-04" THEN 4
    ELSE 5

\* sorted(...) compares the keys of neighbouring rows: a date that is None
\* cannot be compared with another key (TypeError); one row alone is never
\* compared.
SortRaises(rows) ==
    Len(rows) >= 2 /\ \E i \in 1..Len(rows) : rows[i].date = NullDate

\* sorted(prices, key=lambda p: p.get("date", ""), reverse=True): latest date
\* first, rows of one date in the order they had.
SortByDateDesc(rows) ==
    LET n == Len(rows)
        rank == [i \in 1..n |-> DateRank(rows[i].date)]
        \* the place of row i: after the rows of a later date and after
        \* the rows of its own date that came before it
        place == [i \in 1..n |->
                     Cardinality({ j \in 1..n : rank[j] > rank[i] })
                         + Cardinality({ j \in 1..i : rank[j] = rank[i] })]
    IN  [p \in 1..n |-> rows[CHOOSE i \in 1..n : place[i] = p]]

\* Faulty variant: the first five rows as fetched, not sorted.
PriceFragmentsAsFetched(rows) ==
    LET top == Take(rows, PriceFragmentCap)
    IN  [i \in 1..Len(top) |-> PriceFragment(top[i])]

PriceFragments(rows) ==
    LET top == Take(SortByDateDesc(rows), PriceFragmentCap)
    IN  [i \in 1..Len(top) |-> PriceFragment(top[i])]

\* The try block of the market branch after upsert_market_prices returned:
\* no rows give the unavailable fragment; an exception of the sort is caught
\* by the except clause of the branch, which appends its own fragment in
\* place of the prices; else the fragments of the five latest rows.
MarketFragments(rows, commodity) ==
    IF rows = <<>> THEN <<MarketUnavailable(commodity)>>
    ELSE IF SortRaises(rows) THEN <<MarketFetchFailed(commodity)>>
    ELSE PriceFragments(rows)

\* Faulty variant: a weather intent always fetches, for a default region when
\* none was named.
NeedsWeatherCallAlways(ex) == Mentions(IntentOf(ex), "weather")

\* The weather branch calls upsert_weather_for_city: the intent mentions
\* weather and a region was named.
NeedsWeatherCall(ex) ==
    Mentions(IntentOf(ex), "weather") /\ Truthy(Get(EntitiesOf(ex), "region"))

\* The region the weather is fetched for.
RegionOf(ex) ==
    IF Truthy(Get(EntitiesOf(ex), "region"))
    THEN TheValue(Get(EntitiesOf(ex), "region")) ELSE "Chennai"

\* Faulty variant: without a crop the prices of all commodities are fetched.
MarketBranchAllCommodities(ex, parts) ==
    IF ~Mentions(IntentOf(ex), "market")
    THEN [epc |-> "returned", fragments |-> parts]
    ELSE [epc |-> "e_market", fragments |-> parts]

\* The market branch, up to its call of upsert_market_prices if it makes one:
\* where enrich stands then, and the fragments it holds.
MarketBranch(ex, parts) ==
    IF ~Mentions(IntentOf(ex), "market")
    THEN [epc |-> "returned", fragments |-> parts]
    ELSE IF Truthy(Get(EntitiesOf(ex), "crop"))
    THEN [epc |-> "e_market", fragments |-> parts]
    ELSE [epc |-> "returned", fragments |-> Append(parts, NeedCommodity)]

\* The first statements of enrich raise: extracted.get on a value that is no
\* dict, or entities.get, which the weather and the market branch evaluate,
\* on an entities value that is no dict. With any other intent entities is
\* never used.
EnrichRaises(ex) ==
    \/ ex.type # "object"
    \/ /\ ~IsDict(EntitiesOf(ex))
       /\ Mentions(IntentOf(ex), "weather") \/ Mentions(IntentOf(ex), "market")

\* enrich(extracted) is called and runs up to its first await. An exception
\* of its first statements goes to except Exception, which returns []; with
\* an entities value that is no dict and an intent of neither feed the
\* normal return gives [] as well.
Enrich(ex) ==
    /\ epc = "idle"
    /\ cpc = "idle"
    /\ mpc = "idle"
    /\ ereq' = ex
    /\ IF EnrichRaises(ex)
       THEN epc' = "returned" /\ fragments' = <<>> /\ estatus' = "exception"
       ELSE IF ~IsDict(EntitiesOf(ex))
       THEN epc' = "returned" /\ fragments' = <<>> /\ estatus' = "running"
       ELSE /\ estatus' = "running"
            /\ IF NeedsWeatherCall(ex)
               THEN epc' = "e_weather" /\ fragments' = <<>>
               ELSE LET parts == IF Mentions(IntentOf(ex), "weather")
                                 THEN <<NeedRegion>> ELSE <<>>
                    IN  /\ epc' = MarketBranch(ex, parts).epc
                        /\ fragments' = MarketBranch(ex, parts).fragments
    /\ UNCHANGED <<workerVars, chainVars, marketVars, interpretVars,
                   lookupVars, genVars, coordVars,
                   schedVars, impactVars>>
    /\ UNCHANGED <<weatherStore, marketStore, nextId, now, ticks, written>>

\* await live_data_service.upsert_weather_for_city(region)
EnrichCallsWeather(key) ==
    /\ epc = "e_weather"
    /\ StartCity(RegionOf(ereq), key)

\* upsert_weather_for_city has returned or raised: the weather fragment or
\* the unavailable fragment; then the market branch.
EnrichWeatherDone ==
    /\ epc = "e_weather"
    /\ cpc \in {"returned", "raised"}
    /\ LET parts == IF cpc = "returned"
                    THEN <<WeatherFragment(result)>>
                    ELSE <<WeatherUnavailable(RegionOf(ereq))>>
       IN  /\ epc' = MarketBranch(ereq, parts).epc
           /\ fragments' = MarketBranch(ereq, parts).fragments
    /\ cpc' = "idle"
    /\ creq' = NoRequest
    /\ result' = NoResult
    /\ UNCHANGED <<primaryCalls, secondaryCalls, ereq, estatus>>
    /\ UNCHANGED <<workerVars, marketVars, interpretVars, lookupVars,
                   genVars, coordVars,
                   schedVars, impactVars>>
    /\ UNCHANGED <<weatherStore, marketStore, nextId, now, ticks, written>>

\* await live_data_service.upsert_market_prices(params), with the crop as
\* the commodity filter.
EnrichCallsMarket(key) ==
    /\ epc = "e_market"
    /\ UpsertMarketPrices(key, Get(EntitiesOf(ereq), "crop"))

\* upsert_market_prices has returned: a fragment for each of the five latest
\* rows, the unavailable fragment when there are no rows, the fragment of
\* the except clause when the rows cannot be sorted.
EnrichMarketDone ==
    /\ epc = "e_market"
    /\ mpc = "returned"
    /\ fragments' =
         fragments \o
           MarketFragments(mresult.rows, TheValue(Get(EntitiesOf(ereq), "crop")))
    /\ epc' = "returned"
    /\ mpc' = "idle"
    /\ mreq' = NoRequest
    /\ mresult' = NoResult
    /\ mrows' = <<>>
    /\ mrow' = NoJob
    /\ UNCHANGED <<ereq, estatus>>
    /\ UNCHANGED <<workerVars, chainVars, interpretVars, lookupVars, genVars,
                   coordVars,
                   schedVars, impactVars>>
    /\ UNCHANGED <<weatherStore, marketStore, nextId, now, ticks, written>>

\* enrich has returned to the pipeline.
EnrichReturn ==
    /\ epc = "returned"
    /\ epc' = "idle"
    /\ ereq' = [type |-> "none"]
    /\ fragments' = <<>>
    /\ estatus' = IF estatus = "running" THEN "ok" ELSE estatus
    /\ UNCHANGED <<workerVars, chainVars, marketVars, interpretVars,
                   lookupVars, genVars, coordVars,
                   schedVars, impactVars>>
    /\ UNCHANGED <<weatherStore, marketStore, nextId, now, ticks, written>>

EnrichNext ==
    \/ \E ex \in EnrichQueries : Enrich(ex)
    \/ \E key \in BOOLEAN : EnrichCallsWeather(key)
    \/ \E o \in PrimaryOutcomes : CityPrimary(o)
    \/ \E o \in SecondaryOutcomes : CitySecondary(o)
    \/ \E f \in PersistFailures : CityPersist(f)
    \/ EnrichWeatherDone
    \/ \E key \in BOOLEAN : EnrichCallsMarket(key)
    \/ \E o \in AgmarknetOutcomes :
         \E r \in MarketRows(Some(Observed(written)), now) :
             FetchAgmarknetPrices(o, r)
    \/ \E o \in CacheReadOutcomes : FetchFromKnowledgeGraph(o)
    \/ RequestCheck
    \/ RequestUpdate
    \/ RequestMarkOld
    \/ RequestCreate
    \/ RequestCleanup
    \/ RequestStatementFails
    \/ EnrichMarketDone
    \/ EnrichReturn

EnrichSpec == Init /\ [][EnrichNext]_vars

-----------------------------------------------------------------------------
(* Properties of enrich *)

\* The call is for the weather, and its entities map names no region.
WeatherWithoutRegion(ex) ==
    /\ ex.type = "object"
    /\ IntentOf(ex) = "weather"
    /\ IsDict(EntitiesOf(ex))
    /\ Get(EntitiesOf(ex), "region") \subseteq {""}

\* C20: enrich called with intent weather and no region returns at once with
\* exactly one fragment, the instruction to name a region; it starts no
\* weather or market request (no provider call, no network call) and leaves
\* both feeds of the Temporal Cache as they were.
C20_NoRegionNoFetch ==
    [][(epc = "idle" /\ epc' # "idle" /\ WeatherWithoutRegion(ereq')) =>
          /\ epc' = "returned"
          /\ fragments' = <<NeedRegion>>
          /\ UNCHANGED <<chainVars, marketVars>>
          /\ UNCHANGED <<weatherStore, marketStore>>]_vars

\* Such a call has returned its one fragment, the store holding a snapshot
\* written by an earlier call.
C20_Witness ==
    /\ epc = "returned"
    /\ WeatherWithoutRegion(ereq)
    /\ fragments = <<NeedRegion>>
    /\ weatherStore # {}

\* The call mentions the market, and its entities map names no crop.
MarketWithoutCrop(ex) ==
    /\ ex.type = "object"
    /\ Mentions(IntentOf(ex), "market")
    /\ IsDict(EntitiesOf(ex))
    /\ Get(EntitiesOf(ex), "crop") \subseteq {""}

\* C21: enrich called with a market intent and no crop starts no market
\* request for as long as it runs (no call of the provider, no read of the
\* cached prices, no statement on the LiveMarketPrice nodes), and what it
\* returns ends with the instruction to name a commodity, emitted once; with
\* the intent market alone that instruction is the whole result, returned at
\* once with the weather feed untouched as well.
C21_NoCropNoFetch ==
    [][(epc' # "idle" /\ MarketWithoutCrop(ereq')) =>
          /\ mpc' = "idle"
          /\ UNCHANGED <<marketVars, marketStore>>
          /\ epc' \in {"e_weather", "returned"}
          /\ epc' = "returned" =>
                /\ fragments' # <<>>
                /\ fragments'[Len(fragments')] = NeedCommodity
                /\ \A i \in 1..(Len(fragments') - 1) : fragments'[i] # NeedCommodity
          /\ IntentOf(ereq') = "market" =>
                /\ epc = "idle"
                /\ fragments' = <<NeedCommodity>>
                /\ UNCHANGED <<chainVars, weatherStore>>]_vars

\* Such a call has returned the instruction, the store holding prices that
\* an earlier call fetched.
C21_Witness ==
    /\ epc = "returned"
    /\ MarketWithoutCrop(ereq)
    /\ IntentOf(ereq) = "market"
    /\ fragments = <<NeedCommodity>>
    /\ marketStore # {}

\* The intent of the call leads into the weather branch or the market branch.
BranchEntered(ex) ==
    /\ ex.type = "object"
    /\ Mentions(IntentOf(ex), "weather") \/ Mentions(IntentOf(ex), "market")

\* C23: enrich never raises, and a call that entered the weather or the
\* market branch returns at least one fragment, also when an exception
\* occurred in the branch (a provider failure, an entities value of an
\* unexpected shape): the result is never the empty sequence.
C23_FailureLeavesFragment ==
    /\ epc # "raised"
    /\ (epc = "returned" /\ BranchEntered(ereq)) => fragments # <<>>

-----------------------------------------------------------------------------
(* The price rows of one fetch: _fetch_agmarknet_prices answering a list of  *)
(* records, the upsert of all of them, and the fragments enrich emits        *)

\* return processed[:50]
FetchCap == 50

\* Fetches that bring rows, per behaviour.
MaxFetches == 1

\* The lengths of the record lists Agmarknet answers with: none, fewer than
\* enrich emits, more than it emits, more than the fetch lets through.
RecordLengths == {0, 1, 3, PriceFragmentCap + 1, FetchCap + 1}

\* How the arrival dates lie in a list: all of one day, the older day in the
\* first half, the later day on every third record, a null date on the
\* second record (on the only one of a list of one).
DatePatterns == {"same", "rising", "mixed", "null"}

ArrivalDate(i, n, pattern) ==
    IF pattern = "same" THEN "2024-01-02"
    ELSE IF pattern = "null"
    THEN (IF i = 2 \/ n = 1 THEN NullDate ELSE "2024-01-02")
    ELSE IF pattern = "rising"
    THEN (IF 2 * i <= n THEN "2024-01-01" ELSE "2024-01-02")
    ELSE (IF i % 3 = 0 THEN "2024-01-02" ELSE "2024-01-01")

\* data.get("records", []): record i of a list of n records; every seventh
\* record carries no modal_price.
RecordList(n, pattern) ==
    [i \in 1..n |->
        [commodity |-> "Rice",
         market |-> IF i % 2 = 1 THEN "Salem" ELSE "Erode",
         arrival_date |-> ArrivalDate(i, n, pattern),
         modal_price |-> IF i % 7 = 0 THEN None ELSE Some(100 + i)]]

RecordLists == { RecordList(n, p) : n \in RecordLengths, p \in DatePatterns }

\* processed.append({...}): the row made of a record at time t;
\* float(record.get("modal_price", 0)) if record.get("modal_price") else 0.
Processed(record, t) ==
    [commodity |-> record.commodity, market |-> record.market,
     date |-> record.arrival_date,
     price |-> IF record.modal_price \in {None, Some(0)}
               THEN Some(0) ELSE record.modal_price,
     timestamp |-> IsoString(t)]

\* _fetch_agmarknet_prices: the rows of the records, the first fifty of them.
FetchedRows(records, t) ==
    Take([i \in 1..Len(records) |-> Processed(records[i], t)], FetchCap)

\* _fetch_agmarknet_prices(params) with a list of records: data (all the
\* rows) goes to _update_market_prices_in_kg and back to the caller; an
\* error goes to the except clause of fetch_market_prices.
FetchAgmarknetRecords(o, records) ==
    /\ mpc = "m_provider"
    /\ IF o = "rows"
       THEN /\ records # <<>> => written < MaxFetches
            /\ written' = IF records # <<>> THEN written + 1 ELSE written
            /\ mresult' = [source |-> "provider", rows |-> FetchedRows(records, now)]
            /\ mrows' = FetchedRows(records, now)
            /\ mpc' = "mu_loop"
       ELSE /\ o = "error"
            /\ mpc' = "m_cache"
            /\ UNCHANGED <<mresult, mrows, written>>
    /\ UNCHANGED <<mreq, mrow>>
    /\ UNCHANGED <<workerVars, chainVars, interpretVars, lookupVars,
                   enrichVars, genVars, coordVars,
                   schedVars, impactVars>>
    /\ UNCHANGED <<weatherStore, marketStore, nextId, now, ticks>>

\* neo4j_connector.driver is None: the update is skipped as a whole, and
\* upsert_market_prices returns data all the same.
StoreUnavailable ==
    /\ mpc = "mu_loop"
    /\ mrows = mresult.rows
    /\ RequestStatementFails

\* The calls of enrich that go into the market branch only.
PriceQueries ==
    { ex \in EnrichQueries :
        ex.type = "object" /\ IsDict(EntitiesOf(ex)) /\ IntentOf(ex) = "market" }

PricesNext ==
    \/ \E ex \in PriceQueries : Enrich(ex)
    \/ \E key \in BOOLEAN : EnrichCallsMarket(key)
    \/ \E o \in {"rows", "error"}, records \in RecordLists :
         FetchAgmarknetRecords(o, records)
    \/ \E o \in CacheReadOutcomes : FetchFromKnowledgeGraph(o)
    \/ RequestCheck
    \/ RequestUpdate
    \/ RequestMarkOld
    \/ RequestCreate
    \/ RequestCleanup
    \/ StoreUnavailable
    \/ EnrichMarketDone
    \/ EnrichReturn

PricesSpec == Init /\ [][PricesNext]_vars

-----------------------------------------------------------------------------
(* Properties of the price rows *)

\* Row j comes before row k when sorted by date, latest first, rows of one
\* date staying in the order fetched.
Precedes(rows, j, k) ==
    \/ DateRank(rows[j].date) > DateRank(rows[k].date)
    \/ rows[j].date = rows[k].date /\ j < k

\* The row at place i of that order.
RowAt(rows, i) ==
    rows[CHOOSE k \in 1..Len(rows) :
           Cardinality({ j \in 1..Len(rows) : Precedes(rows, j, k) }) = i - 1]

\* The fragments a step has appended.
Appended == SubSeq(fragments', Len(fragments) + 1, Len(fragments'))

\* The price fragments among them.
IsPrice(f) == f.kind = "price"
AppendedPrices == SelectSeq(Appended, IsPrice)

\* C22: of the rows upsert_market_prices returned, enrich emits no more than
\* five price fragments, and those it emits are one for each of the first
\* five rows in the order of date descending (all of them when there are
\* fewer): that many whenever the dates can be put in order, none only when
\* a row of null date stands among several; the fetch hands all its rows, at
\* most 50, to the upsert, which, when its statements run through, leaves a
\* LiveMarketPrice node for every one of them, the rows that are not emitted
\* included.
C22_TopFiveEmittedAllPersisted ==
    [][/\ (epc = "e_market" /\ epc' = "returned" /\ mresult.rows # <<>>) =>
            /\ Len(AppendedPrices) <= 5
            /\ \A i \in 1..Len(AppendedPrices) :
                 AppendedPrices[i] = PriceFragment(RowAt(mresult.rows, i))
            /\ AppendedPrices # <<>> =>
                 /\ Appended = AppendedPrices
                 /\ Len(Appended) =
                      IF Len(mresult.rows) < 5 THEN Len(mresult.rows) ELSE 5
            /\ AppendedPrices = <<>> =>
                 /\ Len(mresult.rows) >= 2
                 /\ \E i \in 1..Len(mresult.rows) :
                      mresult.rows[i].date = NullDate
       /\ (mpc = "m_provider" /\ mpc' = "mu_loop") =>
            /\ mrows' = mresult'.rows
            /\ Len(mrows') <= 50
            /\ \E records \in RecordLists :
                 /\ Len(mrows') = IF Len(records) < 50 THEN Len(records) ELSE 50
                 /\ \A i \in 1..Len(mrows') : mrows'[i] = Processed(records[i], now)
       /\ (mpc = "mu_loop" /\ mrows = <<>> /\ mpc' = "returned") =>
            \A i \in 1..Len(mresult.rows) :
                \E m \in marketStore' : SameKey(m, mresult.rows[i])]_vars

\* enrich has emitted five fragments of a fetch of more than five rows whose
\* dates were not in order, all of which are in the store.
C22_Witness ==
    /\ epc = "returned"
    /\ Len(fragments) = 5
    /\ fragments[1].price = Some(104)
    /\ fragments[4].price = Some(101)
    /\ Cardinality({ m \in marketStore : m.date = "2024-01-01" }) = 2
    /\ Cardinality({ m \in marketStore : m.date = "2024-01-02" }) = 2

-----------------------------------------------------------------------------
(* Response generation: RAGPipeline.gen and its fallback ladder in           *)
(* _fallback_response                                                        *)

\* for result in kg_results[:10]
FullContextCap == 10

\* for item in kg_results[:5]
FallbackNamesCap == 5

\* A Python str is a sequence of tokens: white space, words of an answer,
\* the two fixed sentences of _fallback_response.
Word(w) == [tok |-> "word", w |-> w]
NotConfigured == <<[tok |-> "fixed", text |-> "unable to process, configure Groq"]>>
Apology == <<[tok |-> "fixed", text |-> "technical difficulties"]>>

\* message.content of a reply: empty, white space only, an answer, an answer
\* with white space around it, another answer.
Contents ==
    { <<>>, <<Space>>, <<Word("Apply urea.")>>,
      <<Space, Word("Apply urea."), Space>>, <<Word("Use neem oil.")>> }

\* What a call of chat.completions.create can come to in gen: an exception,
\* a message whose content is None, a message with a text.
Replies ==
    {[kind |-> "error"], [kind |-> "no_content"]}
        \cup { [kind |-> "text", content |-> c] : c \in Contents }

\* response.choices[0].message.content.strip()
Answer(reply) ==
    IF reply.kind = "error" THEN Raised("APIError")
    ELSE IF reply.kind = "no_content" THEN Raised("AttributeError")
    ELSE Returned(Strip(reply.content))

\* "Tamil" if original_language == "ta" else "Hindi" if ... else "English"
LanguageName(language) ==
    IF language = "ta" THEN "Tamil"
    ELSE IF language = "hi" THEN "Hindi"
    ELSE "English"

\* A property of a graph result whose value is None. The property values of
\* the model are strings, so None among them is a string of its own.
NullProperty == "None"

\* The line of the Knowledge Graph context for one result: its name, or
\* Unknown, and its other properties that are not None:
\*   {k: v for k, v in result.items() if k != "name" and v is not None}
KgLine(item) ==
    [name |-> IF "name" \in DOMAIN item THEN item.name ELSE "Unknown",
     props |-> [k \in { j \in DOMAIN item \ {"name"} : item[j] # NullProperty }
                  |-> item[k]]]

\* The RAG prompt of gen: the query, the first ten graph results, the live
\* fragments, the language to answer in.
FullPrompt(query, kg_results, live_context, language) ==
    [kind |-> "full", query |-> query,
     kg |-> [i \in 1..Len(Take(kg_results, FullContextCap)) |-> KgLine(kg_results[i])],
     live |-> live_context, language |-> LanguageName(language)]

\* The prompt of _fallback_response: the query and the names of the first
\* five graph results.
FallbackPrompt(query, kg_results) ==
    [kind |-> "minimal", query |-> query,
     names |-> [i \in 1..Len(Take(kg_results, FallbackNamesCap)) |->
                  KgLine(kg_results[i]).name]]

\* ', '.join(entities) takes strings only: a name that is None among the
\* first five raises TypeError while the prompt is built, before the call of
\* the tier. (The names the connector hands over are properties of nodes
\* merged on their name, which are strings.)
JoinRaises(kg_results) ==
    \E i \in 1..Len(Take(kg_results, FallbackNamesCap)) :
        KgLine(kg_results[i]).name = NullProperty

\* The last resort: "Answer this agricultural question: {query}".
BarePrompt(query) == [kind |-> "bare", query |-> query]

\* Faulty variant: after the full prompt the bare prompt is tried at once.
AfterFailureSkipsFallback(tier) ==
    IF tier = "tier1" THEN "tier3" ELSE "apology"

\* Faulty variant: the last resort is tried again when it fails.
AfterFailureRetriesLastResort(tier) ==
    IF tier = "tier1" THEN "tier2" ELSE "tier3"

\* Where gen goes when the call of a tier failed: except Exception of gen
\* calls _fallback_response, whose except clause makes the last call, whose
\* except clause returns the apology.
AfterFailure(tier) ==
    IF tier = "tier1" THEN "tier2"
    ELSE IF tier = "tier2" THEN "tier3"
    ELSE "apology"

\* Faulty variant: the last resort catches nothing.
LastResortCatchesNothing(exc) == FALSE

\* except: (bare) of the last resort catches every exception.
LastResortCatches(exc) == TRUE

\* The graph results gen is called with, as query_kg hands them over (the
\* dict(node) values of the connector, whose names are strings): none, one,
\* one without a name among others, more than any prompt takes, one with a
\* property that is None.
GenKgResults ==
    { <<>>, <<KgEntity("Crop", "Rice")>>,
      <<KgEntity("Fertilizer", "Urea"), Nameless>>, Bulk,
      <<[type |-> "Crop", name |-> "Rice", season |-> NullProperty]>> }

GenLiveContexts == { <<>>, <<NeedRegion>> }

Languages == {"en", "ta", "hi"}

\* The arguments of gen (extracted is not read by it).
GenCalls ==
    [type : {"gen"}, query : Queries, kg_results : GenKgResults,
     live_context : GenLiveContexts, language : Languages]

Str(s) == [type |-> "str", value |-> s]

\* gen(query, kg_results, live_context, extracted, language) is called;
\* client: self.groq_client is set. Without it gen calls _fallback_response,
\* which returns its fixed sentence.
Gen(call, client) ==
    /\ gpc = "idle"
    /\ greq' = call
    /\ gcalls' = <<>>
    /\ IF client
       THEN gpc' = "tier1" /\ gout' = [type |-> "none"]
       ELSE gpc' = "returned" /\ gout' = Str(NotConfigured)
    /\ UNCHANGED <<workerVars, chainVars, marketVars, interpretVars,
                   lookupVars, enrichVars, coordVars,
                   schedVars, impactVars>>
    /\ UNCHANGED <<weatherStore, marketStore, nextId, now, ticks, written>>

\* A tier of the ladder: one model call with the prompt of the tier, unless
\* building the prompt raised; its answer is returned, or its failure leads
\* to the next tier.
Tier(tier, built, prompt, reply) ==
    /\ gpc = tier
    /\ gcalls' = IF built
                 THEN Append(gcalls, [prompt |-> prompt, reply |-> reply])
                 ELSE gcalls
    /\ LET a == IF built THEN Answer(reply) ELSE Raised("TypeError")
       IN  IF ~a.raised
           THEN gpc' = "returned" /\ gout' = Str(a.value)
           ELSE IF AfterFailure(tier) # "apology"
           THEN gpc' = AfterFailure(tier) /\ UNCHANGED gout
           ELSE IF LastResortCatches(a.exc)
           THEN gpc' = "returned" /\ gout' = Str(Apology)
           ELSE gpc' = "raised" /\ UNCHANGED gout
    /\ UNCHANGED greq
    /\ UNCHANGED <<workerVars, chainVars, marketVars, interpretVars,
                   lookupVars, enrichVars, coordVars,
                   schedVars, impactVars>>
    /\ UNCHANGED <<weatherStore, marketStore, nextId, now, ticks, written>>

\* gen, the try block: the RAG prompt.
GenFull(reply) ==
    /\ gpc = "tier1"
    /\ Tier("tier1", TRUE,
            FullPrompt(greq.query, greq.kg_results, greq.live_context, greq.language),
            reply)

\* _fallback_response, the try block: the smaller prompt is built from the
\* names of the first five results, then the call is made with it.
GenFallback(reply) ==
    /\ gpc = "tier2"
    /\ Tier("tier2", ~JoinRaises(greq.kg_results),
            FallbackPrompt(greq.query, greq.kg_results), reply)

\* _fallback_response, the except clause: the bare query.
GenLastResort(reply) ==
    /\ gpc = "tier3"
    /\ Tier("tier3", TRUE, BarePrompt(greq.query), reply)

\* gen has returned to its caller.
GenReturn ==
    /\ gpc \in {"returned", "raised"}
    /\ gpc' = "idle"
    /\ greq' = [type |-> "none"]
    /\ gcalls' = <<>>
    /\ gout' = [type |-> "none"]
    /\ UNCHANGED <<workerVars, chainVars, marketVars, interpretVars,
                   lookupVars, enrichVars, coordVars,
                   schedVars, impactVars>>
    /\ UNCHANGED <<weatherStore, marketStore, nextId, now, ticks, written>>

GenNext ==
    \/ \E call \in GenCalls, client \in BOOLEAN : Gen(call, client)
    \/ \E reply \in Replies : GenFull(reply)
    \/ \E reply \in Replies : GenFallback(reply)
    \/ \E reply \in Replies : GenLastResort(reply)
    \/ GenReturn

GenSpec == Init /\ [][GenNext]_vars

-----------------------------------------------------------------------------
(* Properties of gen *)

\* The call came to nothing: it raised, or the message had no content.
Failed(c) == c.reply.kind \in {"error", "no_content"}

\* The prompts of the ladder, in its order.
Ladder == <<"full", "minimal", "bare">>

\* C24: the model calls of gen are those of the ladder in its
\* order (the full prompt, the prompt with at most five entity names, the
\* bare query), at most three; a tier is entered only after the call of the
\* tier before it was made and failed; what gen returns is the answer of its
\* own last call, or, only after three failed calls, the apology.
C24_LadderInOrder ==
    /\ Len(gcalls) <= 3
    /\ \A i \in 1..Len(gcalls) :
         /\ gcalls[i].prompt.kind = Ladder[i]
         /\ gcalls[i].prompt.query = greq.query
         /\ \A j \in 1..(i - 1) : Failed(gcalls[j])
    /\ \A i \in 1..Len(gcalls) :
         /\ gcalls[i].prompt.kind = "minimal" =>
              /\ Len(gcalls[i].prompt.names) <= 5
              /\ Len(gcalls[i].prompt.names) <= Len(greq.kg_results)
              /\ DOMAIN gcalls[i].prompt = {"kind", "query", "names"}
         /\ gcalls[i].prompt.kind = "bare" =>
              DOMAIN gcalls[i].prompt = {"kind", "query"}
    /\ gpc = "tier2" => Len(gcalls) = 1 /\ Failed(gcalls[1])
    /\ gpc = "tier3" => Len(gcalls) = 2 /\ Failed(gcalls[2])
    /\ (gpc = "returned" /\ gcalls # <<>>) =>
         LET last == gcalls[Len(gcalls)]
         IN  IF Failed(last)
             THEN Len(gcalls) = 3 /\ gout = Str(Apology)
             ELSE gout = Str(Strip(last.reply.content))

\* gen has returned the answer of the third call, made with the bare query
\* after the calls with the full prompt and with five names of more than
\* five graph results had failed.
C24_Witness ==
    /\ gpc = "returned"
    /\ Len(gcalls) = 3
    /\ ~Failed(gcalls[3])
    /\ Len(greq.kg_results) > 5
    /\ Len(gcalls[2].prompt.names) = 5
    /\ gout = Str(<<Word("Use neem oil.")>>)

\* C25: gen never raises and what it returns is a string, whatever comes of
\* the model calls of its tiers and also without a completion client.
C25_GenReturnsString ==
    /\ gpc # "raised"
    /\ gpc = "returned" => gout.type = "str"

\* gen has returned the apology after three failed calls.
C25_Witness ==
    /\ gpc = "returned"
    /\ Len(gcalls) = 3
    /\ \A i \in 1..3 : Failed(gcalls[i])
    /\ gout = Str(Apology)

\* C26: when the graph lookup returned the empty sequence, the text gen
\* returns is not empty.
C26_TextWithoutGraphResults ==
    (gpc = "returned" /\ greq.kg_results = <<>>) =>
        gout.type = "str" /\ gout.value # <<>>

-----------------------------------------------------------------------------
(* The Pipeline Coordinator: RAGPipeline.process_multilingual_query, which   *)
(* runs the four stages, and its three entries: the /query endpoint          *)
(* (main.process_query), the /voice-query endpoint (main.process_voice_query *)
(* and RAGPipeline.process_voice_query) and RAGPipeline.process_query        *)

\* A query in Tamil script (U+0B80..U+0BFF), written here in Latin letters.
TamilQuery == "[Tamil] mazhai varuma?"

\* Two more queries, named by what their letters are: Devanagari letters,
\* Devanagari letters followed by Tamil ones, and letters next to the two
\* blocks (U+0980 after Devanagari, U+0B7F before Tamil).
HindiQuery == "[Hindi] barish hogi?"
MixedQuery == "[Hindi, Tamil] barish mazhai"
NeighbourQuery == "[Bengali, Oriya] U+0980 U+0B7F"

\* The code points of the characters of a query of the model.
CodePoints(query) ==
    IF query = TamilQuery
        THEN <<2990, 2996, 3016, 32, 2997, 2992, 3009, 2990, 3006, 63>>
    ELSE IF query = HindiQuery
        THEN <<2348, 2366, 2352, 2367, 2358, 32, 2361, 2379, 2327, 2368, 63>>
    ELSE IF query = MixedQuery
        THEN <<2348, 2366, 2352, 2367, 2358, 32, 2990, 2996, 3016>>
    ELSE IF query = NeighbourQuery
        THEN <<2432, 32, 2943>>
    ELSE IF query = "hello"
        THEN <<104, 101, 108, 108, 111>>
    ELSE IF query = "weather in Chennai?"
        THEN <<119, 101, 97, 116, 104, 101, 114, 32, 105, 110, 32, 67, 104,
             101, 110, 110, 97, 105, 63>>
    ELSE IF query = "   "
        THEN <<32, 32, 32>>
    ELSE <<>>

\* '\u0B80' <= char <= '\u0BFF'
IsTamil(char) == 2944 <= char /\ char <= 3071

\* '\u0900' <= char <= '\u097F'
IsDevanagari(char) == 2304 <= char /\ char <= 2431

\* The scripts of the letters of a query: any(... for char in query).
ScriptsOf(query) ==
    LET chars == CodePoints(query)
    IN  (IF \E i \in DOMAIN chars : IsTamil(chars[i])
         THEN {"tamil"} ELSE {})
        \cup (IF \E i \in DOMAIN chars : IsDevanagari(chars[i])
              THEN {"devanagari"} ELSE {})

\* request.query.strip() on the queries of the model.
StripQuery(query) == IF query \in {"", "   "} THEN "" ELSE query

\* The query requests of the model; language is "en" unless the client
\* sends another.
QueryRequests ==
    { [query |-> "hello", language |-> "en"],
      [query |-> "weather in Chennai?", language |-> "auto"],
      [query |-> TamilQuery, language |-> "auto"],
      [query |-> HindiQuery, language |-> "auto"],
      [query |-> MixedQuery, language |-> "auto"],
      [query |-> NeighbourQuery, language |-> "auto"],
      [query |-> TamilQuery, language |-> "hi"],
      [query |-> "", language |-> "en"],
      [query |-> "   ", language |-> "auto"] }

\* Faulty variant: the Devanagari letters are looked for first.
DetectLanguageHindiFirst(query, language) ==
    IF language # "auto" THEN language
    ELSE IF "devanagari" \in ScriptsOf(query) THEN "hi"
    ELSE IF "tamil" \in ScriptsOf(query) THEN "ta"
    ELSE "en"

\* if language == "auto": Tamil letters, else Devanagari letters, else English.
DetectLanguage(query, language) ==
    IF language # "auto" THEN language
    ELSE IF "tamil" \in ScriptsOf(query) THEN "ta"
    ELSE IF "devanagari" \in ScriptsOf(query) THEN "hi"
    ELSE "en"

\* An extraction that names a crop and asks for its prices: query_kg looks
\* the crop and its relations up, enrich calls the market feed.
MarketExtraction == Extraction([crop |-> Some("rice")], "market")

\* The record lists Agmarknet answers the market fetch of a request with: no
\* record, one record, two records the second of which has a null arrival
\* date.
PipelineRecordLists ==
    {RecordList(0, "same"), RecordList(1, "same"), RecordList(2, "null")}

\* The replies of the completion service to interpret within a request: an
\* error, a json.JSONDecodeError of the client, prose without JSON, and each
\* JSON value as the whole text.
PipelineCompletions ==
    {[kind |-> "error"], [kind |-> "decode_error"],
     [kind |-> "text", text |-> <<Prose>>]}
        \cup { [kind |-> "text", text |-> <<Value(v)>>] :
                 v \in JsonValues \cup {MarketExtraction} }

\* The stage process_multilingual_query runs after a stage.
NextStage(stage) ==
    IF stage = "interpret" THEN "query_kg"
    ELSE IF stage = "query_kg" THEN "enrich"
    ELSE "gen"

\* Faulty variant: process_multilingual_query has no handler.
CoordinatorCatchesNothing(exc) == FALSE

\* except Exception of process_multilingual_query.
CoordinatorCatches(exc) == TRUE

NoStage == [type |-> "none"]

\* HTTPException(status_code, detail)
HTTPException(status, detail) ==
    [type |-> "error", status |-> status, detail |-> detail]

\* except Exception as e: raise HTTPException(500, f"Error processing query: {str(e)}")
Wrapped(e) == HTTPException(500, <<"Error processing query: ", e>>)

\* except Exception as e:
\*     raise HTTPException(500, f"Error processing voice query: {str(e)}")
WrappedVoice(e) == HTTPException(500, <<"Error processing voice query: ", e>>)

\* voice_handler.speech_to_text returned None: the Whisper model is not
\* initialised, or the transcription raised.
NoTranscript == "None"

\* What speech_to_text returns: None, or " ".join of the texts of the
\* segments, which is empty for no segment and may be white space.
Transcripts == {NoTranscript, "", "   ", "weather in Chennai?", TamilQuery}

\* What await audio.read() comes to: the bytes of the upload, or an
\* exception of the read.
ReadOutcomes == {"bytes", "error"}

\* if not text_query
Unheard(transcript) == transcript \in {NoTranscript, ""}

\* audio.content_type.startswith('audio/')
IsAudio(content_type) == content_type = "audio/wav"

\* The uploads of the model: an audio file and a file that is no audio, in
\* the language of the form ("auto" unless the client sends another).
VoiceUploads ==
    [content_type : {"audio/wav", "text/plain"}, language : {"auto", "hi"}]

\* The queries RAGPipeline.process_query is called with.
WrapperQueries == {"", "weather in Chennai?", MixedQuery}

\* No request is being served.
CoordinatorIdle ==
    /\ ppc = "idle"
    /\ ipc = "idle" /\ kpc = "idle" /\ epc = "idle" /\ gpc = "idle"
    /\ cpc = "idle" /\ mpc = "idle"

\* process_multilingual_query(query, language) is entered: it detects the
\* language first.
Locals(query, language) ==
    [type |-> "locals",
     language |-> DetectLanguage(query, language),
     extracted |-> NoStage, kg_results |-> <<>>,
     live_context |-> <<>>, response |-> NoStage,
     calls |-> 0]

\* POST /query: an empty query raises HTTPException(400) inside the try
\* block of the endpoint, whose except Exception catches it and raises the
\* 500 in its place; any other query goes to process_multilingual_query.
ProcessQuery(request, client) ==
    /\ CoordinatorIdle
    /\ preq' = [type |-> "query", entry |-> "query", query |-> request.query,
                language |-> request.language, client |-> client]
    /\ ptrace' = <<>>
    /\ penv' = NoStage
    /\ IF StripQuery(request.query) = ""
       THEN /\ ppc' = "responded"
            /\ http' = Wrapped(HTTPException(400, "Query cannot be empty"))
            /\ pdata' = NoStage
       ELSE /\ ppc' = "interpret"
            /\ http' = NoStage
            /\ pdata' = Locals(request.query, request.language)
    /\ UNCHANGED <<workerVars, chainVars, marketVars, interpretVars, lookupVars,
                   enrichVars, genVars,
                   schedVars, impactVars>>
    /\ UNCHANGED <<weatherStore, marketStore, nextId, now, ticks, written>>

\* POST /voice-query, up to its first await: a file that is no audio raises
\* HTTPException(400) inside the try block of the endpoint, whose except
\* Exception raises the 500 in its place; for an audio file the endpoint
\* awaits audio.read(). No transcript exists yet.
ProcessVoiceQuery(upload, client) ==
    /\ CoordinatorIdle
    /\ preq' = [type |-> "query", entry |-> "voice", query |-> NoTranscript,
                language |-> upload.language, client |-> client]
    /\ ptrace' = <<>>
    /\ penv' = NoStage
    /\ pdata' = NoStage
    /\ IF ~IsAudio(upload.content_type)
       THEN /\ ppc' = "responded"
            /\ http' = WrappedVoice(
                          HTTPException(400, "File must be an audio file"))
       ELSE /\ ppc' = "reading"
            /\ http' = NoStage
    /\ UNCHANGED <<workerVars, chainVars, marketVars, interpretVars, lookupVars,
                   enrichVars, genVars,
                   schedVars, impactVars>>
    /\ UNCHANGED <<weatherStore, marketStore, nextId, now, ticks, written>>

\* audio_data = await audio.read() has completed: with the bytes the
\* endpoint calls RAGPipeline.process_voice_query, which awaits
\* voice_handler.speech_to_text; an exception of the read goes to the except
\* clause of the endpoint.
AudioRead(o) ==
    /\ ppc = "reading"
    /\ IF o = "bytes"
       THEN /\ ppc' = "transcribing"
            /\ UNCHANGED http
       ELSE /\ ppc' = "responded"
            /\ http' = WrappedVoice("OSError")
    /\ UNCHANGED <<preq, pdata, ptrace, penv>>
    /\ UNCHANGED <<workerVars, chainVars, marketVars, interpretVars, lookupVars,
                   enrichVars, genVars,
                   schedVars, impactVars>>
    /\ UNCHANGED <<weatherStore, marketStore, nextId, now, ticks, written>>

\* text_query = await voice_handler.speech_to_text(audio_data, language) has
\* returned; if not text_query: without a transcript process_voice_query
\* returns its own envelope and no stage runs; any other transcript, white
\* space included, is passed on untested.
SpeechToText(transcript) ==
    /\ ppc = "transcribing"
    /\ preq' = [preq EXCEPT !.query = transcript]
    /\ ppc' = IF Unheard(transcript) THEN "unheard" ELSE "heard"
    /\ UNCHANGED <<pdata, ptrace, penv, http>>
    /\ UNCHANGED <<workerVars, chainVars, marketVars, interpretVars, lookupVars,
                   enrichVars, genVars,
                   schedVars, impactVars>>
    /\ UNCHANGED <<weatherStore, marketStore, nextId, now, ticks, written>>

\* result = await self.process_multilingual_query(text_query, language)
ProcessTranscript ==
    /\ ppc = "heard"
    /\ pdata' = Locals(preq.query, preq.language)
    /\ ppc' = "interpret"
    /\ UNCHANGED <<preq, ptrace, penv, http>>
    /\ UNCHANGED <<workerVars, chainVars, marketVars, interpretVars, lookupVars,
                   enrichVars, genVars,
                   schedVars, impactVars>>
    /\ UNCHANGED <<weatherStore, marketStore, nextId, now, ticks, written>>

\* RAGPipeline.process_query(query), called from synchronous code:
\* asyncio.run(self.process_multilingual_query(query, "auto")). The query is
\* not tested: the empty one runs through the stages like any other.
PipelineProcessQuery(query, client) ==
    /\ CoordinatorIdle
    /\ preq' = [type |-> "query", entry |-> "wrapper", query |-> query,
                language |-> "auto", client |-> client]
    /\ ptrace' = <<>>
    /\ penv' = NoStage
    /\ ppc' = "interpret"
    /\ http' = NoStage
    /\ pdata' = Locals(query, "auto")
    /\ UNCHANGED <<workerVars, chainVars, marketVars, interpretVars, lookupVars,
                   enrichVars, genVars,
                   schedVars, impactVars>>
    /\ UNCHANGED <<weatherStore, marketStore, nextId, now, ticks, written>>

\* item.get("name", "KG") for item in kg_results[:5]
SourceNames(kg_results) ==
    [i \in 1..Len(Take(kg_results, 5)) |->
        IF "name" \in DOMAIN kg_results[i] THEN kg_results[i].name ELSE "KG"]

\* The envelope of a request that ran through.
Envelope(response, kg_results, ex, t) ==
    [response |-> response,
     sources |-> [knowledge_graph |-> SourceNames(kg_results),
                  documents |-> IF kg_results # <<>>
                                THEN <<"Agricultural Knowledge Base">> ELSE <<>>],
     kg_results |-> Len(kg_results),
     vector_results |-> IF kg_results # <<>> THEN 1 ELSE 0,
     context_used |-> TRUE,
     entities_found |-> EntitiesOf(ex),
     intent |-> IntentOf(ex),
     timestamp |-> IsoString(t)]

\* The envelope of the except clause.
ErrorEnvelope(exc) ==
    [response |-> Str(<<[tok |-> "fixed", text |-> "error processing your query"]>>),
     sources |-> [knowledge_graph |-> <<>>, documents |-> <<>>],
     kg_results |-> 0,
     vector_results |-> 1,
     context_used |-> FALSE,
     error |-> exc]

\* extracted = self.interpret(query)
CallInterpret ==
    /\ ppc = "interpret"
    /\ Interpret(preq.query, preq.client)

\* interpret has returned, or it has raised: the call is inside the try
\* block of process_multilingual_query, whose except clause returns its own
\* envelope with no stage completed.
InterpretDone ==
    /\ ppc = "interpret"
    /\ ipc \in {"returned", "raised"}
    /\ IF ipc = "returned"
       THEN /\ pdata' = [pdata EXCEPT !.extracted = extracted,
                                      !.calls = @ + completionCalls]
            /\ ptrace' = Append(ptrace, "interpret")
            /\ ppc' = NextStage("interpret")
            /\ UNCHANGED penv
       ELSE /\ pdata' = [pdata EXCEPT !.calls = @ + completionCalls]
            /\ UNCHANGED ptrace
            /\ IF CoordinatorCatches("UnboundLocalError")
               THEN /\ penv' = ErrorEnvelope("UnboundLocalError")
                    /\ ppc' = "enveloped"
               ELSE /\ penv' = NoStage
                    /\ ppc' = "raised"
    /\ ipc' = "idle"
    /\ ireq' = NoRequest
    /\ completionCalls' = 0
    /\ ifirst' = [kind |-> "none"]
    /\ iretry' = [kind |-> "none"]
    /\ extracted' = [type |-> "none"]
    /\ UNCHANGED <<preq, http>>
    /\ UNCHANGED <<workerVars, chainVars, marketVars, lookupVars, enrichVars,
                   genVars,
                   schedVars, impactVars>>
    /\ UNCHANGED <<weatherStore, marketStore, nextId, now, ticks, written>>

\* kg_results = self.query_kg(extracted)
CallQueryKg ==
    /\ ppc = "query_kg"
    /\ QueryKg(pdata.extracted)

\* query_kg has returned.
QueryKgDone ==
    /\ ppc = "query_kg"
    /\ kpc = "returned"
    /\ pdata' = [pdata EXCEPT !.kg_results = kgResult]
    /\ ptrace' = Append(ptrace, "query_kg")
    /\ ppc' = NextStage("query_kg")
    /\ kpc' = "idle"
    /\ kreq' = [type |-> "none"]
    /\ kpos' = 1
    /\ kresults' = <<>>
    /\ kgCalls' = <<>>
    /\ kgResult' = <<>>
    /\ kstatus' = "none"
    /\ UNCHANGED <<preq, penv, http>>
    /\ UNCHANGED <<workerVars, chainVars, marketVars, interpretVars,
                   enrichVars, genVars,
                   schedVars, impactVars>>
    /\ UNCHANGED <<weatherStore, marketStore, nextId, now, ticks, written>>

\* live_context = await self.enrich(extracted)
CallEnrich ==
    /\ ppc = "enrich"
    /\ Enrich(pdata.extracted)

\* enrich has returned.
EnrichDone ==
    /\ ppc = "enrich"
    /\ epc = "returned"
    /\ pdata' = [pdata EXCEPT !.live_context = fragments]
    /\ ptrace' = Append(ptrace, "enrich")
    /\ ppc' = NextStage("enrich")
    /\ epc' = "idle"
    /\ ereq' = [type |-> "none"]
    /\ fragments' = <<>>
    /\ estatus' = "none"
    /\ UNCHANGED <<preq, penv, http>>
    /\ UNCHANGED <<workerVars, chainVars, marketVars, interpretVars,
                   lookupVars, genVars,
                   schedVars, impactVars>>
    /\ UNCHANGED <<weatherStore, marketStore, nextId, now, ticks, written>>

\* response = self.gen(query, kg_results, live_context, extracted, language)
CallGen(client) ==
    /\ ppc = "gen"
    /\ client = preq.client
    /\ Gen([type |-> "gen", query |-> preq.query, kg_results |-> pdata.kg_results,
            live_context |-> pdata.live_context, language |-> pdata.language],
           client)

\* gen has returned and the envelope is built: extracted.get raises on a
\* value that is no dict, and the except clause returns its own envelope.
ProcessMultilingualReturn ==
    /\ ppc = "gen"
    /\ gpc = "returned"
    /\ pdata' = [pdata EXCEPT !.response = gout,
                              !.calls = @ + Len(gcalls)]
    /\ ptrace' = Append(ptrace, "gen")
    /\ IF pdata.extracted.type = "object"
       THEN /\ penv' = Envelope(gout, pdata.kg_results, pdata.extracted, now)
            /\ ppc' = "enveloped"
       ELSE IF CoordinatorCatches("AttributeError")
       THEN /\ penv' = ErrorEnvelope("AttributeError")
            /\ ppc' = "enveloped"
       ELSE /\ penv' = NoStage
            /\ ppc' = "raised"
    /\ gpc' = "idle"
    /\ greq' = [type |-> "none"]
    /\ gcalls' = <<>>
    /\ gout' = [type |-> "none"]
    /\ UNCHANGED <<preq, http>>
    /\ UNCHANGED <<workerVars, chainVars, marketVars, interpretVars,
                   lookupVars, enrichVars,
                   schedVars, impactVars>>
    /\ UNCHANGED <<weatherStore, marketStore, nextId, now, ticks, written>>

\* result["timestamp"] = datetime.now().isoformat();
\* result["features_used"] = {...}: what an endpoint makes of the envelope.
Answered(envelope, t) ==
    [type |-> "ok", status |-> 200,
     body |-> [k \in DOMAIN envelope \cup {"timestamp", "features_used"} |->
                 IF k = "timestamp" THEN IsoString(t)
                 ELSE IF k = "features_used" THEN "features"
                 ELSE envelope[k]]]

\* The /query endpoint, after process_multilingual_query: it sets the
\* timestamp and features_used on the envelope and returns it; an exception
\* becomes the 500.
ProcessQueryRespond ==
    /\ ppc \in {"enveloped", "raised"}
    /\ preq.entry = "query"
    /\ http' = IF ppc = "enveloped"
               THEN Answered(penv, now)
               ELSE Wrapped("AttributeError")
    /\ ppc' = "responded"
    /\ UNCHANGED <<preq, pdata, ptrace, penv>>
    /\ UNCHANGED <<workerVars, chainVars, marketVars, interpretVars, lookupVars,
                   enrichVars, genVars,
                   schedVars, impactVars>>
    /\ UNCHANGED <<weatherStore, marketStore, nextId, now, ticks, written>>

\* The envelope of process_voice_query without a transcript.
VoiceFailed ==
    [response |-> Str(<<[tok |-> "fixed", text |-> "couldn't understand your voice input"]>>),
     sources |-> [knowledge_graph |-> <<>>, documents |-> <<>>],
     kg_results |-> 0,
     vector_results |-> 1,
     context_used |-> FALSE,
     voice_transcription |-> "Failed"]

\* The envelope of the except clause of process_voice_query.
VoiceErrorEnvelope(exc) ==
    [response |-> Str(<<[tok |-> "fixed", text |-> "error processing your voice input"]>>),
     sources |-> [knowledge_graph |-> <<>>, documents |-> <<>>],
     kg_results |-> 0,
     vector_results |-> 1,
     context_used |-> FALSE,
     error |-> exc]

\* result["voice_transcription"] = text_query
Transcribed(envelope, text_query) ==
    [k \in DOMAIN envelope \cup {"voice_transcription"} |->
        IF k = "voice_transcription" THEN text_query ELSE envelope[k]]

\* What RAGPipeline.process_voice_query returns.
VoiceResult ==
    IF ppc = "unheard" THEN VoiceFailed
    ELSE IF ppc = "raised" THEN VoiceErrorEnvelope("AttributeError")
    ELSE Transcribed(penv, preq.query)

\* process_voice_query returns and the /voice-query endpoint sets the
\* timestamp and features_used on the result: 200 on every path.
ProcessVoiceQueryRespond ==
    /\ ppc \in {"enveloped", "raised", "unheard"}
    /\ preq.entry = "voice"
    /\ http' = Answered(VoiceResult, now)
    /\ ppc' = "responded"
    /\ UNCHANGED <<preq, pdata, ptrace, penv>>
    /\ UNCHANGED <<workerVars, chainVars, marketVars, interpretVars, lookupVars,
                   enrichVars, genVars,
                   schedVars, impactVars>>
    /\ UNCHANGED <<weatherStore, marketStore, nextId, now, ticks, written>>

\* RAGPipeline.process_query returns what process_multilingual_query
\* returned, as it is; an exception would pass through it.
PipelineProcessQueryReturn ==
    /\ ppc \in {"enveloped", "raised"}
    /\ preq.entry = "wrapper"
    /\ http' = IF ppc = "enveloped"
               THEN [type |-> "returned", body |-> penv]
               ELSE [type |-> "raised", exc |-> "AttributeError"]
    /\ ppc' = "responded"
    /\ UNCHANGED <<preq, pdata, ptrace, penv>>
    /\ UNCHANGED <<workerVars, chainVars, marketVars, interpretVars, lookupVars,
                   enrichVars, genVars,
                   schedVars, impactVars>>
    /\ UNCHANGED <<weatherStore, marketStore, nextId, now, ticks, written>>

\* The response has been sent.
RequestOver ==
    /\ ppc = "responded"
    /\ ppc' = "idle"
    /\ preq' = NoStage
    /\ pdata' = NoStage
    /\ ptrace' = <<>>
    /\ penv' = NoStage
    /\ http' = NoStage
    /\ UNCHANGED <<workerVars, chainVars, marketVars, interpretVars, lookupVars,
                   enrichVars, genVars,
                   schedVars, impactVars>>
    /\ UNCHANGED <<weatherStore, marketStore, nextId, now, ticks, written>>

PipelineNext ==
    \/ \E request \in QueryRequests, client \in BOOLEAN : ProcessQuery(request, client)
    \/ \E upload \in VoiceUploads, client \in BOOLEAN :
         ProcessVoiceQuery(upload, client)
    \/ \E o \in ReadOutcomes : AudioRead(o)
    \/ \E transcript \in Transcripts : SpeechToText(transcript)
    \/ ProcessTranscript
    \/ \E query \in WrapperQueries, client \in BOOLEAN :
         PipelineProcessQuery(query, client)
    \/ CallInterpret
    \/ \E c \in PipelineCompletions : FirstCompletion(c)
    \/ \E c \in PipelineCompletions : RetryCompletion(c)
    \/ InterpretDone
    \/ CallQueryKg
    \/ SlotLookup
    \/ RelatedLookup
    \/ NoRelatedLookup
    \/ QueryKgDone
    \/ CallEnrich
    \/ \E key \in BOOLEAN : EnrichCallsWeather(key)
    \/ \E o \in PrimaryOutcomes : CityPrimary(o)
    \/ \E o \in SecondaryOutcomes : CitySecondary(o)
    \/ \E f \in PersistFailures : CityPersist(f)
    \/ EnrichWeatherDone
    \/ \E key \in BOOLEAN : EnrichCallsMarket(key)
    \/ \E o \in {"rows", "error"}, records \in PipelineRecordLists :
         FetchAgmarknetRecords(o, records)
    \/ \E o \in CacheReadOutcomes : FetchFromKnowledgeGraph(o)
    \/ RequestCheck
    \/ RequestUpdate
    \/ RequestMarkOld
    \/ RequestCreate
    \/ RequestCleanup
    \/ RequestStatementFails
    \/ EnrichMarketDone
    \/ EnrichDone
    \/ \E client \in BOOLEAN : CallGen(client)
    \/ \E reply \in Replies : GenFull(reply)
    \/ \E reply \in Replies : GenFallback(reply)
    \/ \E reply \in Replies : GenLastResort(reply)
    \/ ProcessMultilingualReturn
    \/ ProcessQueryRespond
    \/ ProcessVoiceQueryRespond
    \/ PipelineProcessQueryReturn
    \/ RequestOver

PipelineSpec == Init /\ [][PipelineNext]_vars

-----------------------------------------------------------------------------
(* Properties of the Pipeline Coordinator *)

\* A stage is entered: its position leaves idle.
Starts(stagePc) == stagePc = "idle" /\ stagePc' # "idle"

\* C27 (as stated): within a request the stages run in the order interpret,
\* graph lookup, enrichment, generation: a stage is entered only when exactly the
\* stages before it have completed, so each runs once, and generation is
\* entered only after graph lookup and enrichment have both completed; the
\* envelope is built when all four have.
C27_StagesInOrder ==
    [][/\ Starts(ipc) => ppc = "interpret" /\ ptrace = <<>>
       /\ Starts(kpc) => ppc = "query_kg" /\ ptrace = <<"interpret">>
       /\ Starts(epc) => ppc = "enrich" /\ ptrace = <<"interpret", "query_kg">>
       /\ Starts(gpc) =>
            ppc = "gen" /\ ptrace = <<"interpret", "query_kg", "enrich">>
       /\ (ppc # "enveloped" /\ ppc' = "enveloped") =>
            ptrace' = <<"interpret", "query_kg", "enrich", "gen">>]_vars

\* C28: for a query that is not empty process_multilingual_query never
\* raises: it returns an envelope whose response is a string, whatever the
\* completion service, the store and the providers did, and whichever entry
\* called it: the /query and /voice-query endpoints answer 200 with it, and
\* process_query returns it.
C28_CoordinatorNeverRaises ==
    /\ ppc # "raised"
    /\ ppc = "enveloped" =>
         "response" \in DOMAIN penv /\ penv.response.type = "str"
    /\ (ppc = "responded" /\ preq.entry = "query"
            /\ StripQuery(preq.query) # "") =>
         /\ http.status = 200
         /\ http.body.response.type = "str"
    /\ (ppc = "responded" /\ preq.entry = "voice" /\ pdata.type = "locals") =>
         /\ http.status = 200
         /\ http.body.response = penv.response
         /\ http.body.response.type = "str"
    /\ (ppc = "responded" /\ preq.entry = "wrapper") =>
         /\ http.type = "returned"
         /\ http.body = penv
         /\ http.body.response.type = "str"

\* An exception was caught by the coordinator and the request was answered
\* with the envelope of the except clause.
C28_Witness ==
    /\ ppc = "responded"
    /\ preq.entry = "query"
    /\ "error" \in DOMAIN penv
    /\ http.status = 200
    /\ http.body.response = penv.response

\* The fields of the terminal output record.
EnvelopeFields ==
    {"response", "sources", "kg_results", "entities_found", "intent", "timestamp"}

\* C29: every envelope process_multilingual_query returns has the fields
\* response, sources, kg_results, entities_found, intent and timestamp, with
\* sources.knowledge_graph the names of the first five graph results and
\* kg_results their number, also when it carries an error field.
C29_EnvelopeComplete ==
    ppc = "enveloped" =>
        /\ EnvelopeFields \subseteq DOMAIN penv
        /\ penv.sources.knowledge_graph = SourceNames(pdata.kg_results)
        /\ penv.kg_results = Len(pdata.kg_results)

\* C30: an empty or white-space-only query is rejected before any stage
\* runs, and the caller is answered with the 400 "Query cannot be empty".
C30_EmptyQueryIs400 ==
    (ppc = "responded" /\ StripQuery(preq.query) = "") =>
        /\ ptrace = <<>>
        /\ http = HTTPException(400, "Query cannot be empty")

-----------------------------------------------------------------------------
(* The updater: startup_event, start_live_data_updates and                   *)
(* update_knowledge_graph_with_live_data                                     *)

\* config.WEATHER_CITIES.keys(), in the order of the dict, cut down to the
\* regions of the model.
WeatherCities == <<"Chennai", "Madurai">>

\* await asyncio.sleep(3600)  # Update every hour
HourlySleep == 3600

\* await asyncio.sleep(300)  # Retry after 5 minutes on error
BackoffSleep == 300

\* What startup_event can come to: the configuration is valid and the data
\* is loaded, validate_config() is false, auto_load_data() raises.
StartupOutcomes == {"ok", "invalid_config", "load_failed"}

\* logger.error(f"Error updating knowledge graph with live data: {e}")
UpdateError == "Error updating knowledge graph with live data"

\* update_knowledge_graph_with_live_data ends: its try block covers the loop
\* over the cities and the market upsert, and its except Exception clause
\* logs and falls off the end of the function; nothing is raised to the loop.
UpdateOutcome(raised) == "returned"

\* start_live_data_updates, after the update: the sleep of the try block
\* when the call returned, the sleep of the except clause when it raised.
SleepAfter(ended) ==
    IF ended = "returned" THEN HourlySleep ELSE BackoffSleep

\* Faulty variant: an error inside a cycle ends the task.
AfterCycleStopsOnError(raised) ==
    IF raised
    THEN [spc |-> "ended", sleep |-> 0]
    ELSE [spc |-> "sleeping", sleep |-> HourlySleep]

\* while True: whatever the cycle came to, the loop sleeps and goes round.
AfterCycle(raised) ==
    [spc |-> "sleeping", sleep |-> SleepAfter(UpdateOutcome(raised))]

NoManualUpdate == [from |-> "none", answer |-> "none"]

\* main.update_live_data after the update: {"status": "success", ...} when
\* the call returned, the HTTPException(500) of its except clause when it
\* raised.
UpdateLiveDataAnswer(ended) ==
    IF ended = "returned" THEN "success" ELSE "error 500"

\* The end of update_knowledge_graph_with_live_data: where its caller goes
\* on. The task of the updater sleeps; the handler of POST /live-data/update
\* answers.
CycleEnd(raised) ==
    IF smanual.from = "none"
    THEN [spc |-> AfterCycle(raised).spc, sleep |-> AfterCycle(raised).sleep,
          manual |-> smanual]
    ELSE [spc |-> "answering", sleep |-> ssleep,
          manual |-> [smanual EXCEPT
                        !.answer = UpdateLiveDataAnswer(UpdateOutcome(raised))]]

\* startup_event: the task of the updater is created only when the
\* configuration is valid and auto_load_data() returned.
Startup(o) ==
    /\ spc = "stopped"
    /\ spc' = IF o = "ok" THEN "weather" ELSE "off"
    /\ scity' = 1
    /\ svisited' = {}
    /\ smarket' = FALSE
    /\ UNCHANGED <<slog, ssleep, smanual>>
    /\ UNCHANGED <<workerVars, chainVars, marketVars, interpretVars,
                   lookupVars, enrichVars, genVars, coordVars, impactVars>>
    /\ UNCHANGED <<weatherStore, marketStore, nextId, now, ticks, written>>

\* POST /live-data/update (main.update_live_data): the handler calls
\* update_knowledge_graph_with_live_data itself, whatever startup_event came
\* to. The calls of a cycle block the event loop (requests and the Neo4j
\* driver are synchronous), so the handler runs while the task of the
\* updater is in its sleep, or when the task was never created.
UpdateLiveData ==
    /\ spc \in {"sleeping", "off"}
    /\ smanual.from = "none"
    /\ cpc = "idle"
    /\ mpc = "idle"
    /\ smanual' = [from |-> spc, answer |-> "none"]
    /\ spc' = "weather"
    /\ scity' = 1
    /\ svisited' = {}
    /\ smarket' = FALSE
    /\ UNCHANGED <<slog, ssleep>>
    /\ UNCHANGED <<workerVars, chainVars, marketVars, interpretVars,
                   lookupVars, enrichVars, genVars, coordVars, impactVars>>
    /\ UNCHANGED <<weatherStore, marketStore, nextId, now, ticks, written>>

\* The answer of POST /live-data/update has been sent: the task of the
\* updater is where it was, in its sleep or never created.
UpdateLiveDataReturn ==
    /\ spc = "answering"
    /\ spc' = smanual.from
    /\ smanual' = NoManualUpdate
    /\ UNCHANGED <<scity, svisited, smarket, slog, ssleep>>
    /\ UNCHANGED <<workerVars, chainVars, marketVars, interpretVars,
                   lookupVars, enrichVars, genVars, coordVars, impactVars>>
    /\ UNCHANGED <<weatherStore, marketStore, nextId, now, ticks, written>>

\* for city in config.WEATHER_CITIES.keys():
\*     await self.upsert_weather_for_city(city)
CycleStartCity(key) ==
    /\ spc = "weather"
    /\ cpc = "idle"
    /\ creq' = [path |-> "city", city |-> WeatherCities[scity], key |-> key,
                primary |-> "not_called", secondary |-> "not_called"]
    /\ cpc' = IF key THEN "primary" ELSE "secondary"
    /\ result' = NoResult
    /\ primaryCalls' = 0
    /\ secondaryCalls' = 0
    /\ UNCHANGED <<workerVars, marketVars, interpretVars, lookupVars,
                   enrichVars, genVars, coordVars, schedVars, impactVars>>
    /\ UNCHANGED <<weatherStore, marketStore, nextId, now, ticks, written>>

\* The observations the cycles may draw between them: enough for one cycle
\* that stores every city and a market row, and for the cities of the cycle
\* after it, whose market upsert then meets the row of the first.
CycleWrites == MaxWrites + Len(WeatherCities) + 1

\* The fetches of the city's update; an observation is drawn while the
\* model has one left.
CyclePrimary(o) ==
    /\ spc = "weather"
    /\ PrimaryRaises(o) \/ written < CycleWrites
    /\ CityPrimary(o)

CycleSecondary(o) ==
    /\ spc = "weather"
    /\ SecondaryRaises(o) \/ written < CycleWrites
    /\ CitySecondary(o)

CyclePersist(fail) ==
    /\ spc = "weather"
    /\ CityPersist(fail)

\* upsert_weather_for_city is over. It returned: the loop goes to the next
\* city, and after the last one to the market. It raised: the except clause
\* of update_knowledge_graph_with_live_data takes over, the cities left and
\* the market are not reached in this cycle.
CycleCityDone ==
    /\ spc = "weather"
    /\ cpc \in {"returned", "raised"}
    /\ IF cpc = "returned"
       THEN /\ svisited' = svisited \cup {creq.city}
            /\ spc' = IF scity = Len(WeatherCities) THEN "market" ELSE "weather"
            /\ scity' = IF scity = Len(WeatherCities) THEN scity ELSE scity + 1
            /\ UNCHANGED <<smarket, slog, ssleep, smanual>>
       ELSE /\ spc' = CycleEnd(TRUE).spc
            /\ ssleep' = CycleEnd(TRUE).sleep
            /\ smanual' = CycleEnd(TRUE).manual
            /\ slog' = <<UpdateError>>
            /\ UNCHANGED <<scity, svisited, smarket>>
    /\ cpc' = "idle"
    /\ creq' = NoRequest
    /\ result' = NoResult
    /\ primaryCalls' = 0
    /\ secondaryCalls' = 0
    /\ UNCHANGED <<workerVars, marketVars, interpretVars, lookupVars,
                   enrichVars, genVars, coordVars, impactVars>>
    /\ UNCHANGED <<weatherStore, marketStore, nextId, now, ticks, written>>

\* await self.upsert_market_prices(): no params, so no commodity filter.
CycleCallsMarket(key) ==
    /\ spc = "market"
    /\ UpsertMarketPrices(key, None)

\* upsert_market_prices returned (it never raises): the cycle is over, and
\* its caller goes on.
CycleMarketDone ==
    /\ spc = "market"
    /\ mpc = "returned"
    /\ smarket' = TRUE
    /\ spc' = CycleEnd(FALSE).spc
    /\ ssleep' = CycleEnd(FALSE).sleep
    /\ smanual' = CycleEnd(FALSE).manual
    /\ slog' = <<>>
    /\ mpc' = "idle"
    /\ mreq' = NoRequest
    /\ mresult' = NoResult
    /\ mrows' = <<>>
    /\ mrow' = NoJob
    /\ UNCHANGED <<scity, svisited>>
    /\ UNCHANGED <<workerVars, chainVars, interpretVars, lookupVars,
                   enrichVars, genVars, coordVars, impactVars>>
    /\ UNCHANGED <<weatherStore, marketStore, nextId, now, ticks, written>>

\* The sleep is over: while True goes round. slog keeps the lines the last
\* cycle logged until the running one ends.
Wake ==
    /\ spc = "sleeping"
    /\ spc' = "weather"
    /\ scity' = 1
    /\ svisited' = {}
    /\ smarket' = FALSE
    /\ UNCHANGED <<slog, ssleep, smanual>>
    /\ UNCHANGED <<workerVars, chainVars, marketVars, interpretVars,
                   lookupVars, enrichVars, genVars, coordVars, impactVars>>
    /\ UNCHANGED <<weatherStore, marketStore, nextId, now, ticks, written>>

\* _fetch_agmarknet_prices() of the cycle's market upsert.
CycleFetchAgmarknet(o, r) ==
    /\ spc = "market"
    /\ FetchAgmarknetWithin(o, r, CycleWrites)

UpdaterNext ==
    \/ \E o \in StartupOutcomes : Startup(o)
    \/ UpdateLiveData
    \/ UpdateLiveDataReturn
    \/ \E key \in BOOLEAN : CycleStartCity(key)
    \/ \E o \in PrimaryOutcomes : CyclePrimary(o)
    \/ \E o \in SecondaryOutcomes : CycleSecondary(o)
    \/ \E f \in PersistFailures : CyclePersist(f)
    \/ CycleCityDone
    \/ \E key \in BOOLEAN : CycleCallsMarket(key)
    \/ \E o \in AgmarknetOutcomes :
         \E r \in MarketRows(Some(Observed(written)), now) :
             CycleFetchAgmarknet(o, r)
    \/ \E o \in CacheReadOutcomes : FetchFromKnowledgeGraph(o)
    \/ RequestCheck
    \/ RequestUpdate
    \/ RequestMarkOld
    \/ RequestCreate
    \/ RequestCleanup
    \/ RequestStatementFails
    \/ CycleMarketDone
    \/ Wake

UpdaterSpec == Init /\ [][UpdaterNext]_vars

\* The event loop runs whatever can take a step: every await of a cycle ends
\* (in a value or in an exception). Every sleep ends: its timer runs out
\* while requests are served, and the task goes on the next time the loop is
\* free, however many requests come.
UpdaterLive == UpdaterSpec /\ WF_vars(UpdaterNext) /\ SF_vars(Wake)

-----------------------------------------------------------------------------
(* Properties of the updater *)

\* The whole configured list of cities.
AllCities == { WeatherCities[i] : i \in 1..Len(WeatherCities) }

\* The positions of update_knowledge_graph_with_live_data.
CyclePcs == {"weather", "market"}

\* C31 (as stated): when a cycle of the updater's task ends with a logged
\* failure, the loop sleeps the short backoff, not the hourly interval.
C31_FailedCycleBacksOff ==
    [][(/\ smanual.from = "none"
        /\ spc \in CyclePcs /\ spc' = "sleeping"
        /\ slog' # <<>>) => ssleep' = BackoffSleep]_vars

\* C34 (as stated): a cycle that ends, the task's or that of a request, has
\* updated the weather of every configured city and then the market, also
\* when a city's update failed.
C34_EveryCityThenMarket ==
    [][(spc \in CyclePcs /\ spc' \notin CyclePcs)
          => (svisited' = AllCities /\ smarket')]_vars

\* The task of the updater has been created.
Started == spc \notin {"stopped", "off"} /\ smanual.from # "off"

\* A cycle of the task is at its first statement.
CycleStart ==
    /\ spc = "weather" /\ smanual.from = "none"
    /\ scity = 1 /\ svisited = {} /\ cpc = "idle"

\* C40: once started, the updater begins a cycle infinitely often and sleeps
\* infinitely often, whatever fails inside the cycles, and a cycle begins
\* only from the startup or from a sleep. (The task, once created, is never
\* uncreated, so "infinitely often: started implies P" says that P recurs
\* for ever from the start on.)
C40_CyclesForever ==
    /\ []<>(Started => CycleStart)
    /\ []<>(Started => spc = "sleeping")
    /\ [][(CycleStart' /\ ~CycleStart) => spc \in {"stopped", "sleeping"}]_vars

\* A cycle begins after a cycle that failed.
C40_Witness == CycleStart /\ slog # <<>>

-----------------------------------------------------------------------------
(* The agricultural-impact assessment: _assess_agricultural_impact_from_global *)
(* (primary provider) and _assess_openmeteo_impact (secondary provider)        *)

\* Python's truth value of an optional number: None and 0 are false.
TruthyNumber(v) == v # None /\ v # Some(0)

\* "x and x > n", "x and x < n": the comparison is reached only for a true x.
AndAbove(v, n) == TruthyNumber(v) /\ \E x \in v : x > n
AndBelow(v, n) == TruthyNumber(v) /\ \E x \in v : x < n

\* The readings of the model, in degrees, per cent and millimetres: the
\* values on both sides of every threshold, the threshold, and 0.
Temperatures == {None, Some(-5), Some(0), Some(10), Some(15), Some(36)}
Humidities == {None, Some(0), Some(30), Some(40), Some(80), Some(90)}
Precipitations == {None, Some(0), Some(2), Some(3)}
CloudCovers == {None, Some(0), Some(80), Some(90)}

\* current["condition"]: the key is absent, the value is null, or a string.
NoCondition == [kind |-> "absent"]
NullCondition == [kind |-> "null"]
Condition(s) == [kind |-> "str", s |-> s]
Conditions ==
    {NoCondition, NullCondition, Condition("Rain"),
     Condition("Light rain shower"), Condition("Cloudy"), Condition("Clear")}

\* str.lower() on the strings of the model.
LowerCondition(s) ==
    IF s = "Rain" THEN "rain"
    ELSE IF s = "Light rain shower" THEN "light rain shower"
    ELSE IF s = "Cloudy" THEN "cloudy"
    ELSE IF s = "Clear" THEN "clear"
    ELSE s

\* "rain" in condition, "cloud" in condition
HasRain(s) == s \in {"rain", "light rain shower"}
HasCloud(s) == s \in {"cloudy"}

\* The advisory strings of the two variants.
GlobalAdvice ==
    [fungal |-> "High risk of fungal diseases. Ensure proper drainage.",
     heat |-> "Heat stress risk. Increase irrigation frequency.",
     cold |-> "Cold stress risk. Protect sensitive crops.",
     radiation |->
         "Low solar radiation. Adjust irrigation/fertilizer scheduling.",
     favorable |-> "Favorable conditions for most crops.",
     unclear |-> "Conditions unclear. Monitor field conditions."]

OpenMeteoAdvice ==
    [fungal |->
         "High fungal disease risk; ensure drainage and monitor fields.",
     heat |-> "Heat stress risk; increase irrigation frequency.",
     cold |-> "Cold stress risk; protect sensitive crops.",
     radiation |->
         "Low solar radiation; adjust irrigation/fertilizer scheduling.",
     favorable |-> "Favorable conditions for most crops.",
     unclear |-> "Conditions unclear; monitor field conditions."]

\* _assess_agricultural_impact_from_global(current). A null condition
\* raises on .lower(), and the except clause answers.
AssessGlobal(current) ==
    LET temp == current.temperature
        humidity == current.humidity
    IN  IF current.condition = NullCondition THEN GlobalAdvice.unclear
        ELSE LET condition ==
                     IF current.condition = NoCondition THEN ""
                     ELSE LowerCondition(current.condition.s)
             IN  IF HasRain(condition) /\ AndAbove(humidity, 80)
                     THEN GlobalAdvice.fungal
                 ELSE IF AndAbove(temp, 35) /\ AndBelow(humidity, 40)
                     THEN GlobalAdvice.heat
                 ELSE IF AndBelow(temp, 15)
                     THEN GlobalAdvice.cold
                 ELSE IF HasCloud(condition)
                     THEN GlobalAdvice.radiation
                 ELSE GlobalAdvice.favorable

\* _assess_openmeteo_impact(temperature, humidity, precipitation, cloud_cover)
AssessOpenMeteo(temperature, humidity, precipitation, cloud_cover) ==
    IF AndAbove(precipitation, 2) /\ AndAbove(humidity, 80)
        THEN OpenMeteoAdvice.fungal
    ELSE IF AndAbove(temperature, 35) /\ AndBelow(humidity, 40)
        THEN OpenMeteoAdvice.heat
    ELSE IF AndBelow(temperature, 15)
        THEN OpenMeteoAdvice.cold
    ELSE IF AndAbove(cloud_cover, 80)
        THEN OpenMeteoAdvice.radiation
    ELSE OpenMeteoAdvice.favorable

\* x if x is not None else 0.0
OrZero(v) == IF v = None THEN Some(0) ELSE v

\* fetch_indian_weather_data: "agricultural_impact":
\*     self._assess_agricultural_impact_from_global(current)
AssessFromGlobal(temperature, humidity, condition) ==
    /\ areq' = [variant |-> "global", temperature |-> temperature,
                humidity |-> humidity, condition |-> condition]
    /\ aout' = AssessGlobal([temperature |-> temperature,
                             humidity |-> humidity, condition |-> condition])
    /\ UNCHANGED <<workerVars, chainVars, marketVars, interpretVars,
                   lookupVars, enrichVars, genVars, coordVars, schedVars>>
    /\ UNCHANGED <<weatherStore, marketStore, nextId, now, ticks, written>>

\* fetch_weather_data: the readings of Open-Meteo with their defaults, and
\* humidity=0.0 ("Not available in this API call").
AssessFromOpenMeteo(temperature, precipitation, cloud_cover) ==
    /\ areq' = [variant |-> "openmeteo", temperature |-> temperature,
                humidity |-> None, precipitation |-> precipitation,
                cloud_cover |-> cloud_cover]
    /\ aout' = AssessOpenMeteo(OrZero(temperature), Some(0),
                               OrZero(precipitation), OrZero(cloud_cover))
    /\ UNCHANGED <<workerVars, chainVars, marketVars, interpretVars,
                   lookupVars, enrichVars, genVars, coordVars, schedVars>>
    /\ UNCHANGED <<weatherStore, marketStore, nextId, now, ticks, written>>

\* _assess_openmeteo_impact called with readings of its own (the function
\* takes a humidity, whatever its one caller passes).
AssessOpenMeteoDirect(temperature, humidity, precipitation, cloud_cover) ==
    /\ areq' = [variant |-> "openmeteo_direct", temperature |-> temperature,
                humidity |-> humidity, precipitation |-> precipitation,
                cloud_cover |-> cloud_cover]
    /\ aout' = AssessOpenMeteo(temperature, humidity, precipitation,
                               cloud_cover)
    /\ UNCHANGED <<workerVars, chainVars, marketVars, interpretVars,
                   lookupVars, enrichVars, genVars, coordVars, schedVars>>
    /\ UNCHANGED <<weatherStore, marketStore, nextId, now, ticks, written>>

ImpactNext ==
    \/ \E t \in Temperatures, h \in Humidities, c \in Conditions :
         AssessFromGlobal(t, h, c)
    \/ \E t \in Temperatures, p \in Precipitations, c \in CloudCovers :
         AssessFromOpenMeteo(t, p, c)
    \/ \E t \in Temperatures \ {None}, h \in Humidities \ {None},
          p \in Precipitations \ {None}, c \in CloudCovers \ {None} :
         AssessOpenMeteoDirect(t, h, p, c)

ImpactSpec == Init /\ [][ImpactNext]_vars

-----------------------------------------------------------------------------
(* Properties of the impact assessment *)

\* A reading is there and above, or below, the threshold: 0 is a reading
\* like any other, a missing reading matches no rule.
Above(v, n) == \E x \in v : x > n
Below(v, n) == \E x \in v : x < n

\* The rule table as stated: the first rule that matches, in the order
\* fungal risk, heat stress, cold stress, low radiation, favorable.
RuleTable(advice, wet, temperature, humidity, overcast) ==
    IF wet /\ Above(humidity, 80) THEN advice.fungal
    ELSE IF Above(temperature, 35) /\ Below(humidity, 40) THEN advice.heat
    ELSE IF Below(temperature, 15) THEN advice.cold
    ELSE IF overcast THEN advice.radiation
    ELSE advice.favorable

\* The rule table on the readings of the request.
Stated ==
    IF areq.variant = "global"
    THEN LET c == IF areq.condition.kind # "str" THEN ""
                  ELSE LowerCondition(areq.condition.s)
         IN  RuleTable(GlobalAdvice, HasRain(c), areq.temperature,
                       areq.humidity, HasCloud(c))
    ELSE RuleTable(OpenMeteoAdvice, Above(areq.precipitation, 2),
                   areq.temperature, areq.humidity,
                   Above(areq.cloud_cover, 80))

\* C33 (as stated): the assessment returns the advisory of the first rule
\* of the table that matches, for every combination of readings, 0 and
\* missing included, in both variants.
C33_FirstMatchingRule ==
    areq.variant # "none" => aout = Stated

-----------------------------------------------------------------------------
(* Properties of the language detection *)

\* The language of a request as stated: the language the client named, and
\* for "auto" Tamil if any character is in the Tamil block, else Hindi if
\* any is in the Devanagari block, else English.
StatedLanguage(query, language) ==
    LET chars == CodePoints(query)
    IN  IF language # "auto" THEN language
        ELSE IF \E i \in DOMAIN chars : chars[i] \in 2944..3071 THEN "ta"
        ELSE IF \E i \in DOMAIN chars : chars[i] \in 2304..2431 THEN "hi"
        ELSE "en"

\* The step in which process_multilingual_query settles the language.
Detects == pdata.type # "locals" /\ pdata'.type = "locals"

\* C32: the language of a request is settled once, before interpret and
\* without a model call, as the stated classification of the query when the
\* request says auto and as the request's own language otherwise; it does
\* not change during the request and is the language gen is called with.
C32_LanguageSettledOnce ==
    /\ [](pdata.type = "locals" =>
            pdata.language = StatedLanguage(preq.query, preq.language))
    /\ []((ppc = "gen" /\ greq.type = "gen") =>
            greq.language = StatedLanguage(preq.query, preq.language))
    /\ [][Detects =>
            /\ ptrace' = <<>>
            /\ ppc' = "interpret"
            /\ UNCHANGED <<interpretVars, genVars>>]_vars
    /\ [][(pdata.type = "locals" /\ pdata'.type = "locals") =>
            pdata'.language = pdata.language]_vars

\* gen is running for a query with Devanagari and Tamil letters whose
\* request left the language to the detection.
C32_Witness ==
    /\ ppc = "gen"
    /\ greq.type = "gen"
    /\ preq.query = MixedQuery
    /\ preq.language = "auto"
    /\ greq.language = "ta"

\* C37 (as stated): whenever gen returned a text, the envelope of the
\* request carries exactly that text as its response, whatever interpret
\* returned.
C37_GeneratedTextIsTheResponse ==
    (ppc = "enveloped" /\ pdata.response.type = "str") =>
        penv.response = pdata.response

\* The completion calls of the request so far: those of the stages that are
\* over (pdata.calls) and those of the stage that is running.
CallsSoFar == pdata.calls + completionCalls + Len(gcalls)

\* C38: a request makes at most 5 completion calls, at most 2 of them in
\* interpret and at most 3 in gen; without a completion client it makes
\* none, and its envelope carries the static response of gen.
C38_AtMostFiveCompletions ==
    pdata.type = "locals" =>
        /\ completionCalls <= 2
        /\ Len(gcalls) <= 3
        /\ CallsSoFar <= 5
        /\ ~preq.client => CallsSoFar = 0
        /\ (ppc = "enveloped" /\ ~preq.client) =>
               /\ penv.response = Str(NotConfigured)
               /\ "error" \notin DOMAIN penv

\* A request that made two calls in interpret and three in gen.
C38_Witness ==
    /\ ppc = "enveloped"
    /\ preq.client
    /\ pdata.calls = 5

-----------------------------------------------------------------------------
(* Properties of the market snapshots *)

\* The current LiveMarketPrice nodes of a commodity on a market.
CurrentOfPair(store, commodity, market) ==
    { m \in store :
        m.commodity = commodity /\ m.market = market /\ m.is_current }

\* C35 (as stated): whatever market rows have been upserted one after the
\* other, new dates and same-date updates in any order, a commodity has at
\* most one current LiveMarketPrice on a market.
C35_OneCurrentPerPair ==
    \A c \in Commodities, m \in Markets :
        Cardinality(CurrentOfPair(marketStore, c, m)) <= 1

\* The LiveMarketPrice nodes of a commodity, a market and a date.
NodesOfTriple(store, k) == { m \in store : SameTriple(m, k) }

\* C36 (as stated): there is at most one LiveMarketPrice per commodity,
\* market and date in every reachable state, also when two upserts of the
\* same triple interleave their statements.
C36_OneNodePerTriple ==
    \A k \in MarketKeys : Cardinality(NodesOfTriple(marketStore, k)) <= 1

-----------------------------------------------------------------------------
(* Properties of the persistence step *)

\* The positions of _update_market_prices_in_kg.
UpdatePcs == {"mu_loop", "mu_update", "mu_mark", "mu_create"}

\* C39: the step that persists a fetched observation, whatever fails in it,
\* ends in the return of the fetched data: for the weather the request
\* returns the observation it held and calls no provider again, for the
\* market the rows of the fetch are kept through the update and returned.
C39_PersistenceNeverChangesOutcome ==
    [][/\ (cpc = "persist" /\ cpc' # "persist") =>
              /\ cpc' = "returned"
              /\ result' = result
              /\ UNCHANGED <<primaryCalls, secondaryCalls>>
       /\ (cpc = "returned" /\ cpc' # "returned") => cpc' = "idle"
       /\ (mpc \in UpdatePcs /\ mpc' # mpc) =>
              /\ mpc' \in UpdatePcs \cup {"returned"}
              /\ mresult' = mresult
       /\ (mpc = "returned" /\ mpc' # "returned") => mpc' = "idle"]_vars

\* A request for the weather and the prices whose weather observation came
\* from the primary provider and whose market rows came from Agmarknet, and
\* neither store holds a node: both were returned, neither was persisted.
C39_Witness ==
    /\ epc = "e_market"
    /\ mpc = "returned"
    /\ mresult.source = "provider"
    /\ mresult.rows # <<>>
    /\ marketStore = {}
    /\ weatherStore = {}
    /\ fragments # <<>>
    /\ fragments[1].kind = "weather"
    /\ primaryCalls = 1
    /\ secondaryCalls = 0

====
